---- MODULE Spec2Model ----
(***************************************************************************)
(* Model of the fetch daemon (GeoscienceAustralia/fetch):                  *)
(*   - the supervisor loop, its signal handlers and RunConfig.load         *)
(*     (fetch/auto.py),                                                     *)
(*   - the Worker processes with their lock and log files (fetch/auto.py),  *)
(*   - the fetch-now entry point run_items (fetch/auto.py),                 *)
(*   - the atomic fetch primitive fetch_file (fetch/_core.py),              *)
(*   - the file loops of the HTTP and FTP sources (fetch/http.py, ftp.py),  *)
(*   - DateRangeSource and ShellFileProcessor (fetch/_core.py),             *)
(*   - the sanitized names of the rules (fetch/load.py).                    *)
(* Spec      : the daemon, its signals, its workers, edits of the config.   *)
(* ExitSpec  : the daemon with its config file left as it is.               *)
(* NowSpec   : the daemon, left alone by signals, next to a fetch-now run.  *)
(* FetchSpec : repeated calls of fetch_file on one destination path.        *)
(* ReapSpec  : _filter_finished_children on any set of children.           *)
(* TriggerSpec : the triggers of an HTTP or FTP source, one after another.  *)
(* FairSpec  : the daemon sent no exit signal, its loop taking its steps.   *)
(* DateSpec  : DateRangeSource.trigger over a range of days.                *)
(* ShellSpec : ShellFileProcessor.process on one retrieved file.            *)
(* SanitizeSpec : _sanitize_for_filename on names of a few characters.      *)
(* WrapSpec  : the handler a Worker wraps around the reporter.              *)
(* LockSpec  : Workers spawned for two rules of any names.                  *)
(***************************************************************************)
EXTENDS Integers, Sequences, FiniteSets, TLC

\* ------------------------------------------------------------------------
\* Bounds of the model
\* ------------------------------------------------------------------------
MaxTime == 3
MaxWorkers == 2
MaxReloads == 1
MaxEdits == 1
MaxNames == 2
MaxCalls == 2
MaxTriggers == 2
\* retry_count of an HTTP source and retries of the FTP transfer (3 in the
\* code, fewer here)
retry_count == 1
retries == 2
\* the most paths of one bulk files_complete
MaxPaths == 2
\* the longest text given to _sanitize_for_filename
MaxLen == 3
\* start_day and end_day of a DateRangeSource lie in -MaxDays..MaxDays
MaxDays == 2

\* ------------------------------------------------------------------------
\* Rules, names, cron patterns
\* ------------------------------------------------------------------------
\* Rule names are Python strings, i.e. sequences of characters.
RuleA == <<"A">>
RuleB == <<"B", "1">>
RuleNames == {RuleA, RuleB}
\* a name that is a rule of no config (fetch-now may be given it)
NoSuchRule == <<"z">>

\* the characters of the names for which str.isalnum() is true
AlnumChars == {"a", "b", "z", "1", "A", "B",
               "L", "S", "P", "F", "O", "l", "s", "p", "f", "o", "m", "e", "n", "8"}

\* the lowercase letter of each uppercase letter
LowerOf == [A |-> "a", B |-> "b", L |-> "l", S |-> "s", P |-> "p", F |-> "f", O |-> "o"]

\* a lower() that leaves every character as it is
Lower_Unchanged(c) == c

\* str.lower() on one character
Lower(c) == IF c \in DOMAIN LowerOf THEN LowerOf[c] ELSE c

\* load._sanitize_for_filename: "".join(x if x.isalnum() else "-" for x in text.lower())
_sanitize_for_filename(text) ==
    [i \in 1..Len(text) |-> IF Lower(text[i]) \in AlnumChars THEN Lower(text[i]) ELSE "-"]

\* ScheduledItem.sanitized_name
sanitized_name(name) == _sanitize_for_filename(name)

\* The cron pattern of a rule, as the period (in clock ticks) with which it
\* fires: rule A fires on every tick, rule B on every second tick.
cron_pattern(name) == IF name = RuleA THEN 1 ELSE 2

\* croniter(pattern, start_time=base).get_next(): the first fire time
\* strictly after base.
get_next(period, base) == period * ((base \div period) + 1)

\* ------------------------------------------------------------------------
\* Configuration files
\* ------------------------------------------------------------------------
ExistingDirs == {"d1", "d2"}
Dirs == ExistingDirs \cup {"gone"}

\* What load.load_yaml can find in the config file: a parsable config, or
\* a file that makes it raise ConfigError.
ValidConfigs == [rules : SUBSET RuleNames, directory : Dirs,
                 notify_addresses : BOOLEAN, messaging_settings : BOOLEAN]
Unparsable == [rules |-> {}, directory |-> "", notify_addresses |-> FALSE,
               messaging_settings |-> FALSE]

\* The config the daemon is started with lives in an existing directory.
InitialConfigs == {c \in ValidConfigs : /\ c.directory = "d1"
                                        /\ c.notify_addresses
                                        /\ ~c.messaging_settings}

\* What one edit of the config file can make of it: one key changed, or
\* the file broken.
Edited(c) ==
    ({[c EXCEPT !.rules = r] : r \in SUBSET RuleNames}
       \cup {[c EXCEPT !.directory = d] : d \in Dirs}
       \cup {[c EXCEPT !.notify_addresses = ~@], [c EXCEPT !.messaging_settings = ~@]}
       \cup {Unparsable}) \ {c}

\* ------------------------------------------------------------------------
\* heapq on a list of (next_trigger, item) tuples
\* ------------------------------------------------------------------------
\* How the interpreter orders two ScheduledItems that are not equal
\* (SimpleObject defines __eq__ only): Python 3 raises TypeError, Python 2
\* orders them by address, either way round.
TieModes == {"TypeError", "addr_lt", "addr_gt"}

\* (t1, item1) < (t2, item2) for tuples: "lt", "ge" or "err" (TypeError)
TupleLt(x, y, tie) ==
    IF x[1] # y[1] THEN (IF x[1] < y[1] THEN "lt" ELSE "ge")
    ELSE IF x[2] = y[2] THEN "ge"
    ELSE IF tie = "TypeError" THEN "err"
    ELSE IF tie = "addr_lt" THEN (IF x[2] = RuleA THEN "lt" ELSE "ge")
    ELSE (IF x[2] = RuleA THEN "ge" ELSE "lt")

\* heapq._siftdown(heap, 0, pos) with newitem being moved towards the root
RECURSIVE _siftdown(_, _, _, _)
_siftdown(heap, pos, newitem, tie) ==
    IF pos = 1 THEN [h |-> [heap EXCEPT ![1] = newitem], err |-> FALSE]
    ELSE LET parentpos == pos \div 2
             parent == heap[parentpos]
             c == TupleLt(newitem, parent, tie)
         IN IF c = "err" THEN [h |-> heap, err |-> TRUE]
            ELSE IF c = "lt"
                 THEN _siftdown([heap EXCEPT ![pos] = parent], parentpos, newitem, tie)
                 ELSE [h |-> [heap EXCEPT ![pos] = newitem], err |-> FALSE]

\* heapq._siftup(heap, pos): bubble the smaller child up to a leaf, then
\* sift newitem down from there
RECURSIVE _siftup(_, _, _, _)
_siftup(heap, pos, newitem, tie) ==
    LET childpos == 2 * pos
        rightpos == childpos + 1
        endpos == Len(heap)
    IN IF childpos > endpos THEN _siftdown(heap, pos, newitem, tie)
       ELSE LET c == IF rightpos <= endpos
                     THEN TupleLt(heap[childpos], heap[rightpos], tie)
                     ELSE "lt"
                cp == IF c = "lt" THEN childpos ELSE rightpos
            IN IF c = "err" THEN [h |-> heap, err |-> TRUE]
               ELSE _siftup([heap EXCEPT ![pos] = heap[cp]], cp, newitem, tie)

\* heapq.heappush(heap, item)
heappush(heap, item, tie) == _siftdown(Append(heap, item), Len(heap) + 1, item, tie)

\* heapq.heappop(heap) on a non-empty heap: the popped item and the new heap
heappop(heap, tie) ==
    LET lastelt == heap[Len(heap)]
        rest == SubSeq(heap, 1, Len(heap) - 1)
    IN IF rest = <<>> THEN [item |-> lastelt, h |-> <<>>, err |-> FALSE]
       ELSE LET r == _siftup([rest EXCEPT ![1] = lastelt], 1, lastelt, tie)
            IN [item |-> rest[1], h |-> r.h, err |-> r.err]

\* Schedule.add_item(item, base_date): push (cron next after base_date, item)
add_item(heap, name, base_date, tie) ==
    heappush(heap, <<get_next(cron_pattern(name), base_date), name>>, tie)

\* Schedule.__init__(items): add every item against one `now`; the rules are
\* a Python set, iterated in some order (ord is that order, as a sequence).
RECURSIVE ScheduleInit(_, _, _)
ScheduleInit(ord, now, tie) ==
    IF ord = <<>> THEN [h |-> <<>>, err |-> FALSE]
    ELSE LET before == ScheduleInit(SubSeq(ord, 1, Len(ord) - 1), now, tie)
         IN IF before.err THEN before
            ELSE add_item(before.h, ord[Len(ord)], now, tie)

\* the iteration orders of a set of rules
Orders(S) == {s \in UNION {[1..n -> S] : n \in {Cardinality(S)}} :
                 \A i, j \in 1..Cardinality(S) : i # j => s[i] # s[j]}

\* ------------------------------------------------------------------------
\* State
\* ------------------------------------------------------------------------
VARIABLES
    clock,             \* time.time(), in ticks of one cron minute
    config_file,       \* what the config file holds
    edits,             \* number of edits of the config file
    o,                 \* the supervisor's RunConfig
    supPc,             \* where run_loop is
    running_children,  \* run_loop's set of ScheduledProcess
    loc,               \* run_loop's locals of the current iteration
    joinSet,           \* _on_shutdown: the children still to be joined
    crash,             \* the exception that ended the supervisor, "" if none
    reloads,           \* number of SIGHUPs delivered
    workers,           \* every ScheduledProcess ever started
    nSpawned,          \* how many there are
    logs,              \* the log files: path |-> set of workers whose output it holds
    nowPc,             \* where the fetch-now process (run_items) is
    nowO,              \* its RunConfig
    nowLoc,            \* run_items: chosen_items still to start, scheduled_time
    nowChildren,       \* run_items: running_children
    ff,                \* one fetch_file activation and the files it works on
    tr                 \* the triggers of one source and the files at its destination

supVars == <<o, supPc, running_children, loc, joinSet, crash, reloads>>
workerVars == <<workers, nSpawned, logs>>
nowVars == <<nowPc, nowO, nowLoc, nowChildren>>
envVars == <<clock, config_file, edits>>
vars == <<clock, config_file, edits, o, supPc, running_children, loc, joinSet, crash, reloads,
          workers, nSpawned, logs, nowPc, nowO, nowLoc, nowChildren, ff, tr>>

WorkerIds == 1..MaxWorkers

\* Process.exitcode: <<>> is None, <<c>> is exit code c
None == <<>>

\* ------------------------------------------------------------------------
\* RunConfig
\* ------------------------------------------------------------------------
\* RunConfig.__init__: nothing loaded yet.  Directories are named by their
\* base directory: lock_directory "d1" stands for d1/lock, log_directory
\* "d1" for d1/log, "" for None.
RunConfig ==
    [are_exiting |-> FALSE, schedule |-> <<>>, schedule_id |-> 0,
     base_directory |-> "", log_directory |-> "", lock_directory |-> "",
     notifiers |-> 0, messaging_settings |-> FALSE]

\* a lock directory that follows the base directory of every load
LockDirectory_Follows(lock_directory, base_directory) == base_directory

\* `if not self.lock_directory: self.lock_directory = join(base_directory,
\* 'lock')`: set by the first load only
LockDirectory(lock_directory, base_directory) ==
    IF lock_directory = "" THEN base_directory ELSE lock_directory

\* RunConfig.load reading config file c at time now: the RunConfig after
\* the call and the exception it raised ("" if it returned).  ord is the
\* iteration order of config.rules, tie the interpreter's item ordering.
load(self, c, now, ord, tie) ==
    LET sched == ScheduleInit(ord, now, tie)
        o1 == [self EXCEPT !.schedule = sched.h,
                           !.schedule_id = self.schedule_id + 1,
                           !.base_directory = c.directory,
                           !.messaging_settings = c.messaging_settings,
                           !.notifiers = IF c.notify_addresses THEN 1 ELSE 0]
        o2 == [o1 EXCEPT !.lock_directory = LockDirectory(self.lock_directory, c.directory),
                         !.log_directory = c.directory]
    IN IF c.directory = "" THEN [o |-> self, raised |-> "ConfigError"]
       ELSE IF sched.err THEN [o |-> self, raised |-> "TypeError"]
       ELSE IF c.directory \notin ExistingDirs THEN [o |-> o1, raised |-> "ValueError"]
       ELSE [o |-> o2, raised |-> ""]

\* ------------------------------------------------------------------------
\* Workers (ScheduledProcess)
\* ------------------------------------------------------------------------
NoWorker ==
    [st |-> "none", rule |-> <<>>, origin |-> "", scheduled_time |-> 0,
     lock_file |-> <<>>, log_file |-> <<>>, exitcode |-> None,
     locked_out |-> FALSE, prior_at_spawn |-> FALSE, prior_at_lock |-> FALSE,
     exiting_at_spawn |-> FALSE, exiting_at_start |-> FALSE,
     truncated_holder |-> FALSE,
     rescheduled |-> FALSE, classified |-> 0, notified |-> 0, emailed |-> 0]

\* the lock is held from a successful _attempt_lock until the process ends
HoldsLock(w, f) == workers[w].st = "trigger" /\ workers[w].lock_file = f
LockHeld(f) == \E w \in WorkerIds : HoldsLock(w, f)

\* a Worker of the rule with this sanitized name is inside module.trigger
Executing(id_) ==
    \E w \in WorkerIds : workers[w].st = "trigger" /\ sanitized_name(workers[w].rule) = id_

\* ScheduledProcess.__init__ and start(): the new process and its files
\* (the history fields record what held when it was started)
ScheduledProcess(origin, item, scheduled_time, log_directory, lock_directory, exiting, began) ==
    LET id_ == sanitized_name(item)
        lock_file == <<lock_directory, id_>>
    IN [NoWorker EXCEPT !.st = "started", !.rule = item, !.origin = origin,
                        !.scheduled_time = scheduled_time,
                        !.lock_file = lock_file,
                        !.log_file = <<log_directory, scheduled_time, id_>>,
                        !.prior_at_spawn = Executing(id_),
                        !.exiting_at_spawn = exiting,
                        !.exiting_at_start = began]

\* TaskFailureEmailer.on_process_failure(process):
\* `if process.exitcode < 0: return`, else the log file is mailed
on_process_failure(process) ==
    IF process.exitcode[1] < 0 THEN process
    ELSE [process EXCEPT !.emailed = @ + 1]

\* _on_child_finish(child, notifiers) for a finished child: one
\* on_process_failure per notifier if the exit code is not 0
_on_child_finish(child, notifiers) ==
    LET sent == IF child.exitcode # <<0>>
                THEN on_process_failure(child).emailed - child.emailed
                ELSE 0
    IN [child EXCEPT !.classified = @ + 1,
                     !.notified = IF child.exitcode # <<0>> THEN @ + notifiers ELSE @,
                     !.emailed = @ + notifiers * sent]

\* whether _on_child_finish(child, notifiers) has a notifier read the
\* child's log file and send mail
NotifierActs(child, notifiers) ==
    /\ child.exitcode # None
    /\ child.exitcode # <<0>>
    /\ child.exitcode[1] >= 0
    /\ notifiers > 0

\* _on_child_finish(child, notifiers) left by the exception of its first
\* notifier (open(process.log_file) or smtplib raising): nothing is sent
_on_child_finish_raising(child) ==
    [child EXCEPT !.classified = @ + 1, !.notified = @ + 1]

\* ------------------------------------------------------------------------
\* Initial state: init_run_config has loaded a usable config at time 0
\* ------------------------------------------------------------------------
NoNowLocals == [item_names |-> <<>>, possible_names |-> {}, chosen_items |-> <<>>,
                scheduled_time |-> 0, raised |-> ""]

NoLocals == [now |-> 0, scheduled_time |-> 0, scheduled_item |-> <<>>,
             child |-> 0, peeked_id |-> 0, popped_id |-> 0, added_id |-> 0,
             exiting_at_start |-> FALSE, interrupted |-> FALSE]

\* fetch_file is not running; nothing is at target_path
ffIdle == [pc |-> "idle", calls |-> 0, override_existing |-> FALSE,
           target |-> "absent", tmp |-> "absent", t |-> FALSE,
           was_success |-> FALSE, exc |-> FALSE, fetch_fn |-> "",
           fetched_tmp |-> "absent", file_error |-> <<>>, file_complete |-> 0,
           target_before |-> "absent"]

\* no source is being triggered
trIdle == [kind |-> "", pc |-> "idle"]

Init ==
    /\ clock = 0
    /\ config_file \in InitialConfigs
    /\ edits = 0
    /\ \E ord \in Orders(config_file.rules) : \E tie \in TieModes :
          LET r == load(RunConfig, config_file, 0, ord, tie)
          IN r.raised = "" /\ o = r.o
    /\ supPc = "while"
    /\ running_children = {}
    /\ loc = NoLocals
    /\ joinSet = {}
    /\ crash = ""
    /\ reloads = 0
    /\ workers = [w \in WorkerIds |-> NoWorker]
    /\ nSpawned = 0
    /\ logs = <<>>
    /\ nowPc = "idle"
    /\ nowO = RunConfig
    /\ nowLoc = NoNowLocals
    /\ nowChildren = {}
    /\ ff = ffIdle
    /\ tr = trIdle

\* time.time(): any time that is not earlier than the time last read
Later == clock..MaxTime

\* ------------------------------------------------------------------------
\* The supervisor: run_loop
\* ------------------------------------------------------------------------
Raise(e) == supPc' = "crashed" /\ crash' = e

\* a filter that keeps the children that failed
_filter_finished_children_KeepFailed(children) ==
    {w \in children : workers[w].exitcode \notin {<<0>>}}

\* _filter_finished_children(running_children, notifiers): the children
\* that have not finished
_filter_finished_children(children) == {w \in children : workers[w].exitcode = None}

\* the children after _on_child_finish has returned for those of `done`
\* and has been left by a notifier's exception for those of `failed`
Reaped(done, failed) ==
    [w \in WorkerIds |->
        IF w \in done THEN _on_child_finish(workers[w], o.notifiers)
        ELSE IF w \in failed THEN _on_child_finish_raising(workers[w])
        ELSE workers[w]]

\* a loop that does not test the exit flag (`while True:`)
LoopCondition_Always(self) == TRUE

\* the loop condition, `not o.are_exiting`
LoopCondition(self) == ~self.are_exiting

\* `while not o.are_exiting:` and, inside the loop, the reaping of the
\* finished children; on exit _on_shutdown collects the children to join
SupWhile ==
    /\ supPc = "while"
    /\ IF ~LoopCondition(o)
       THEN /\ supPc' = "shutdown"
            /\ joinSet' = running_children \cup
                   {w \in WorkerIds : workers[w].origin = "loop"
                                      /\ workers[w].st \notin {"none", "exited"}}
            /\ loc' = NoLocals
            /\ UNCHANGED <<running_children, workers, crash>>
       ELSE /\ joinSet' = joinSet
            /\ \/ /\ supPc' = "peek"
                  /\ crash' = crash
                  /\ loc' = [NoLocals EXCEPT !.exiting_at_start = o.are_exiting]
                  /\ running_children' = _filter_finished_children(running_children)
                  /\ workers' = Reaped(running_children \ running_children', {})
               \/ \E f \in running_children : \E before \in SUBSET (running_children \ {f}) :
                     /\ NotifierActs(workers[f], o.notifiers)
                     /\ \A w \in before : workers[w].exitcode # None
                     /\ workers' = Reaped(before, {f})
                     /\ Raise("SMTPException")
                     /\ UNCHANGED <<running_children, loc>>
    /\ UNCHANGED <<envVars, o, reloads, nSpawned, logs, nowVars, ff, tr>>

\* bool(o.schedule): a Schedule defines neither __bool__ nor __len__, so
\* the object is true whatever it holds
ScheduleIsTrue(self) == TRUE

\* `if not o.schedule: sleep(500); continue`, else now = time.time() and
\* o.schedule.peek_next(), then the comparison with now
SupPeek ==
    /\ supPc = "peek"
    /\ \E t \in Later :
       /\ clock' = t
       /\ IF ~ScheduleIsTrue(o)
          THEN supPc' = "while" /\ UNCHANGED <<loc, crash>>
          ELSE IF o.schedule = <<>>
          THEN Raise("IndexError") /\ UNCHANGED loc
          ELSE /\ loc' = [loc EXCEPT !.now = t,
                                     !.scheduled_time = o.schedule[1][1],
                                     !.scheduled_item = o.schedule[1][2],
                                     !.peeked_id = o.schedule_id]
               /\ supPc' = IF o.schedule[1][1] < t THEN "pop" ELSE "sleep"
               /\ crash' = crash
    /\ UNCHANGED <<config_file, edits, o, running_children, joinSet, reloads,
                   workerVars, nowVars, ff, tr>>

\* scheduled_time, scheduled_item = o.schedule.pop_next()
SupPop ==
    /\ supPc = "pop"
    /\ \E tie \in TieModes :
          IF o.schedule = <<>>
          THEN Raise("IndexError") /\ UNCHANGED <<o, loc>>
          ELSE LET r == heappop(o.schedule, tie)
               IN /\ o' = [o EXCEPT !.schedule = r.h]
                  /\ IF r.err
                     THEN Raise("TypeError") /\ UNCHANGED loc
                     ELSE /\ loc' = [loc EXCEPT !.scheduled_time = r.item[1],
                                                !.scheduled_item = r.item[2],
                                                !.popped_id = o.schedule_id]
                          /\ supPc' = "spawn"
                          /\ crash' = crash
    /\ UNCHANGED <<envVars, running_children, joinSet, reloads, workerVars, nowVars, ff, tr>>

\* p = _run_item(reporter, item, scheduled_time, get_day_log_dir(...),
\* o.lock_directory); running_children.add(p)
SupSpawn ==
    /\ supPc = "spawn"
    /\ nSpawned < MaxWorkers
    /\ LET p == nSpawned + 1
       IN /\ workers' = [workers EXCEPT ![p] =
                 ScheduledProcess("loop", loc.scheduled_item, loc.scheduled_time,
                                  o.log_directory, o.lock_directory, o.are_exiting,
                                  loc.exiting_at_start)]
          /\ nSpawned' = p
          /\ running_children' = running_children \cup {p}
          /\ loc' = [loc EXCEPT !.child = p]
    /\ supPc' = "add"
    /\ UNCHANGED <<envVars, o, joinSet, crash, reloads, logs, nowVars, ff, tr>>

\* next_trigger = o.schedule.add_item(scheduled_item, base_date=now)
SupAdd ==
    /\ supPc = "add"
    /\ \E tie \in TieModes :
          LET r == add_item(o.schedule, loc.scheduled_item, loc.now, tie)
          IN /\ o' = [o EXCEPT !.schedule = r.h]
             /\ IF r.err
                THEN Raise("TypeError") /\ UNCHANGED <<workers, loc>>
                ELSE /\ supPc' = "while"
                     /\ crash' = crash
                     /\ loc' = [loc EXCEPT !.added_id = o.schedule_id]
                     /\ workers' = [workers EXCEPT ![loc.child].rescheduled = TRUE]
    /\ UNCHANGED <<envVars, running_children, joinSet, reloads, nSpawned, logs, nowVars, ff, tr>>

\* time.sleep((scheduled_time - now) + 0.1): returns once the time has
\* passed; a signal handled meanwhile ends the sleep early on Python 2.
\* At the end of the modelled time the sleep is cut short.
SupSleep ==
    /\ supPc = "sleep"
    /\ \E t \in Later :
          /\ t > loc.scheduled_time \/ loc.interrupted \/ t = MaxTime
          /\ clock' = t
    /\ supPc' = "while"
    /\ UNCHANGED <<config_file, edits, o, running_children, loc, joinSet, crash, reloads,
                   workerVars, nowVars, ff, tr>>

\* _on_shutdown: for p in all_children: p.join(); _on_child_finish(p, notifiers)
SupJoin ==
    /\ supPc = "shutdown"
    /\ \E p \in joinSet :
          /\ workers[p].exitcode # None
          /\ \/ /\ workers' = Reaped({p}, {})
                /\ joinSet' = joinSet \ {p}
                /\ UNCHANGED <<supPc, crash>>
             \/ /\ NotifierActs(workers[p], o.notifiers)
                /\ workers' = Reaped({}, {p})
                /\ Raise("SMTPException")
                /\ UNCHANGED joinSet
    /\ UNCHANGED <<envVars, o, running_children, loc, reloads,
                   nSpawned, logs, nowVars, ff, tr>>

\* run_loop returns
SupReturn ==
    /\ supPc = "shutdown"
    /\ joinSet = {}
    /\ supPc' = "done"
    /\ UNCHANGED <<envVars, o, running_children, loc, joinSet, crash, reloads,
                   workerVars, nowVars, ff, tr>>

\* ------------------------------------------------------------------------
\* Signal handlers of the supervisor (run between two steps of run_loop)
\* ------------------------------------------------------------------------
SupAlive == supPc \notin {"done", "crashed"}

\* trigger_exit: o.are_exiting = True
trigger_exit ==
    /\ SupAlive
    /\ ~o.are_exiting
    /\ o' = [o EXCEPT !.are_exiting = TRUE]
    /\ loc' = [loc EXCEPT !.interrupted = @ \/ (supPc = "sleep")]
    /\ UNCHANGED <<envVars, supPc, running_children, joinSet, crash, reloads,
                   workerVars, nowVars, ff, tr>>

\* trigger_reload: o.load(); an exception of load leaves the handler and
\* is raised in run_loop, which does not catch it
trigger_reload ==
    /\ SupAlive
    /\ reloads < MaxReloads
    /\ reloads' = reloads + 1
    /\ \E t \in Later : \E ord \in Orders(config_file.rules) : \E tie \in TieModes :
          LET r == load(o, config_file, t, ord, tie)
          IN /\ clock' = t
             /\ o' = r.o
             /\ IF r.raised # ""
                THEN Raise(r.raised) /\ UNCHANGED loc
                ELSE /\ loc' = [loc EXCEPT !.interrupted = @ \/ (supPc = "sleep")]
                     /\ UNCHANGED <<supPc, crash>>
    /\ UNCHANGED <<config_file, edits, running_children, joinSet, workerVars, nowVars, ff, tr>>

\* ------------------------------------------------------------------------
\* The Worker process: ScheduledProcess.run
\* ------------------------------------------------------------------------
\* the log file of Worker w is the one that a Worker holding w's lock file
\* has its output redirected to
LogOfHolder(w) ==
    \E h \in WorkerIds : /\ h # w
                          /\ HoldsLock(h, workers[w].lock_file)
                          /\ workers[h].log_file = workers[w].log_file

\* _init_signals(); _redirect_output(self.log_file): open(log_file, 'w')
\* creates or truncates the log file
WorkerRedirect(w) ==
    /\ workers[w].st = "started"
    /\ workers' = [workers EXCEPT ![w].st = "redirected",
                                  ![w].truncated_holder = LogOfHolder(w)]
    /\ logs' = (workers[w].log_file :> {}) @@ logs
    /\ UNCHANGED <<envVars, supVars, nSpawned, nowVars, ff, tr>>

\* _attempt_lock(lock_file): fcntl.lockf(LOCK_EX | LOCK_NB) fails iff
\* another process holds the lock on that file
_attempt_lock(lock_file) == ~LockHeld(lock_file)

\* `if not _attempt_lock(self.lock_file): sys.exit(0)`
WorkerLock(w) ==
    /\ workers[w].st = "redirected"
    /\ LET prior == Executing(sanitized_name(workers[w].rule))
       IN IF _attempt_lock(workers[w].lock_file)
          THEN workers' = [workers EXCEPT ![w].st = "trigger", ![w].prior_at_lock = prior]
          ELSE workers' = [workers EXCEPT ![w].st = "exited", ![w].exitcode = <<0>>,
                                          ![w].locked_out = TRUE,
                                          ![w].prior_at_lock = prior]
    /\ UNCHANGED <<envVars, supVars, nSpawned, logs, nowVars, ff, tr>>

\* how self.module.trigger(...) can end
Outcomes == {"returned", "RemoteFetchException", "Exception"}

\* the exit code of the process: run returns (0), sys.exit(1) in the
\* handler of RemoteFetchException, or an exception that run does not
\* catch, for which multiprocessing's bootstrap exits with code 1
ExitCodeOf(outcome) == IF outcome = "returned" THEN 0 ELSE 1

\* self.module.trigger(...) ends: normally or with an exception; the
\* output is in the log
WorkerFinish(w) ==
    /\ workers[w].st = "trigger"
    /\ \E outcome \in Outcomes :
          workers' = [workers EXCEPT ![w].st = "exited",
                                     ![w].exitcode = <<ExitCodeOf(outcome)>>]
    /\ logs' = IF workers[w].log_file \in DOMAIN logs
               THEN [logs EXCEPT ![workers[w].log_file] = @ \cup {w}]
               ELSE logs
    /\ UNCHANGED <<envVars, supVars, nSpawned, nowVars, ff, tr>>

\* the operator edits the config file
EditConfig ==
    /\ edits < MaxEdits
    /\ edits' = edits + 1
    /\ config_file' \in Edited(config_file)
    /\ UNCHANGED <<clock, supVars, workerVars, nowVars, ff, tr>>

\* The daemon that is sent no exit signal and whose config file nobody
\* edits: run_loop does not return. The supervisor is a process of its own
\* that the system keeps running, so a step of run_loop that can be taken
\* is taken in the end.
SupStep == SupWhile \/ SupPeek \/ SupPop \/ SupSpawn \/ SupAdd \/ SupSleep

FairNext ==
    \/ SupWhile
    \/ SupPeek
    \/ SupPop
    \/ SupSpawn
    \/ SupAdd
    \/ SupSleep
    \/ trigger_reload
    \/ \E w \in WorkerIds : WorkerRedirect(w)
    \/ \E w \in WorkerIds : WorkerLock(w)
    \/ \E w \in WorkerIds : WorkerFinish(w)

FairSpec == Init /\ [][FairNext]_vars /\ WF_vars(SupStep)

\* ------------------------------------------------------------------------
\* fetch-now: init_run_config and run_items in a process of its own
\* ------------------------------------------------------------------------
NameLists == UNION {[1..n -> RuleNames \cup {NoSuchRule}] : n \in 1..MaxNames}

\* chosen_items = [item for scheduled_time, item in o.schedule.schedule
\*                 if item.name in item_names]
RECURSIVE chosen_items(_, _)
chosen_items(schedule, item_names) ==
    IF schedule = <<>> THEN <<>>
    ELSE LET rest == chosen_items(Tail(schedule), item_names)
         IN IF \E i \in 1..Len(item_names) : item_names[i] = schedule[1][2]
            THEN <<schedule[1][2]>> \o rest
            ELSE rest

\* `if len(chosen_items) < len(item_names): raise RuntimeError(...)`
NamesMissing(chosen, item_names) == Len(chosen) < Len(item_names)

\* init_run_config (RunConfig.load), then run_items up to scheduled_time =
\* time.time(); the Schedule is not looked at again and is dropped here
NowStart ==
    /\ nowPc = "idle"
    /\ \E t \in Later : \E ord \in Orders(config_file.rules) : \E tie \in TieModes :
       \E item_names \in NameLists :
          LET r == load(RunConfig, config_file, t, ord, tie)
              chosen == chosen_items(r.o.schedule, item_names)
              possible == {r.o.schedule[i][2] : i \in 1..Len(r.o.schedule)}
          IN /\ clock' = t
             /\ nowO' = [r.o EXCEPT !.schedule = <<>>]
             /\ IF r.raised # ""
                THEN /\ nowPc' = "failed"
                     /\ nowLoc' = [NoNowLocals EXCEPT !.raised = r.raised]
                ELSE IF NamesMissing(chosen, item_names)
                THEN /\ nowPc' = "failed"
                     /\ nowLoc' = [NoNowLocals EXCEPT !.item_names = item_names,
                                                      !.possible_names = possible,
                                                      !.raised = "RuntimeError"]
                ELSE /\ nowPc' = "spawning"
                     /\ nowLoc' = [NoNowLocals EXCEPT !.item_names = item_names,
                                                      !.possible_names = possible,
                                                      !.chosen_items = chosen,
                                                      !.scheduled_time = t]
    /\ UNCHANGED <<config_file, edits, supVars, workerVars, nowChildren, ff, tr>>

\* `for chosen_item in chosen_items: p = _run_item(...); running_children.add(p)`
NowSpawn ==
    /\ nowPc = "spawning"
    /\ nSpawned < MaxWorkers
    /\ LET p == nSpawned + 1
       IN /\ workers' = [workers EXCEPT ![p] =
                 ScheduledProcess("now", Head(nowLoc.chosen_items), nowLoc.scheduled_time,
                                  nowO.log_directory, nowO.lock_directory, FALSE, FALSE)]
          /\ nSpawned' = p
          /\ nowChildren' = nowChildren \cup {p}
    /\ nowLoc' = [nowLoc EXCEPT !.chosen_items = Tail(@)]
    /\ nowPc' = IF Tail(nowLoc.chosen_items) = <<>> THEN "joining" ELSE "spawning"
    /\ UNCHANGED <<envVars, supVars, logs, nowO, ff, tr>>

\* _on_shutdown(running_children, o.notifiers) of run_items; the
\* exception of a notifier ends run_items
NowJoin ==
    /\ nowPc = "joining"
    /\ \E p \in nowChildren :
          /\ workers[p].exitcode # None
          /\ \/ /\ workers' = [workers EXCEPT ![p] =
                                    _on_child_finish(workers[p], nowO.notifiers)]
                /\ nowChildren' = nowChildren \ {p}
                /\ UNCHANGED <<nowPc, nowLoc>>
             \/ /\ NotifierActs(workers[p], nowO.notifiers)
                /\ workers' = [workers EXCEPT ![p] = _on_child_finish_raising(workers[p])]
                /\ nowPc' = "done"
                /\ nowLoc' = [nowLoc EXCEPT !.raised = "SMTPException"]
                /\ UNCHANGED nowChildren
    /\ UNCHANGED <<envVars, supVars, nSpawned, logs, nowO, ff, tr>>

NowReturn ==
    /\ nowPc = "joining"
    /\ nowChildren = {}
    /\ nowPc' = "done"
    /\ UNCHANGED <<envVars, supVars, workerVars, nowO, nowLoc, nowChildren, ff, tr>>

\* ------------------------------------------------------------------------
\* The daemon with its workers and a fetch-now run
\* ------------------------------------------------------------------------
\* The daemon: supervisor, its signal handlers, its workers, the operator
Next ==
    \/ SupWhile
    \/ SupPeek
    \/ SupPop
    \/ SupSpawn
    \/ SupAdd
    \/ SupSleep
    \/ SupJoin
    \/ SupReturn
    \/ trigger_exit
    \/ trigger_reload
    \/ \E w \in WorkerIds : WorkerRedirect(w)
    \/ \E w \in WorkerIds : WorkerLock(w)
    \/ \E w \in WorkerIds : WorkerFinish(w)
    \/ EditConfig

Spec == Init /\ [][Next]_vars

\* The daemon while nobody edits the config file
ExitNext ==
    \/ SupWhile
    \/ SupPeek
    \/ SupPop
    \/ SupSpawn
    \/ SupAdd
    \/ SupSleep
    \/ SupJoin
    \/ SupReturn
    \/ trigger_exit
    \/ trigger_reload
    \/ \E w \in WorkerIds : WorkerRedirect(w)
    \/ \E w \in WorkerIds : WorkerLock(w)
    \/ \E w \in WorkerIds : WorkerFinish(w)

ExitSpec == Init /\ [][ExitNext]_vars

\* The daemon (left alone by signals) next to a fetch-now run
NowNext ==
    \/ SupWhile
    \/ SupPeek
    \/ SupPop
    \/ SupSpawn
    \/ SupAdd
    \/ SupSleep
    \/ \E w \in WorkerIds : WorkerRedirect(w)
    \/ \E w \in WorkerIds : WorkerLock(w)
    \/ \E w \in WorkerIds : WorkerFinish(w)
    \/ EditConfig
    \/ NowStart
    \/ NowSpawn
    \/ NowJoin
    \/ NowReturn

NowSpec == Init /\ [][NowNext]_vars

\* ------------------------------------------------------------------------
\* fetch_file (fetch/_core.py)
\* ------------------------------------------------------------------------
\* What a path can hold: nothing ("absent"), a file of size 0 ("empty"),
\* part of the remote object ("partial"), all of it ("complete" in the
\* temp file; at target_path "old" is the artifact of an earlier fetch and
\* "new" the one of this fetch).

\* what fetch_fn can make of the temp file in one write
Written(tmp) ==
    IF tmp = "absent" THEN {"empty"}
    ELSE IF tmp = "empty" THEN {"partial", "complete"}
    ELSE IF tmp = "partial" THEN {"complete"}
    ELSE {}

\* fetch_fn reports success only for a transfer that ran to its end (the
\* adapters return True after the last chunk); it may then have written
\* nothing at all, or an empty file
MayReturn(res, tmp) == res => tmp \in {"absent", "empty", "complete"}

\* the checks without the one on what fetch_fn returned
AfterFetch_IgnoresResult(was_success, tmp) ==
    IF tmp = "absent" THEN "No file"
    ELSE IF tmp = "empty" THEN "Empty file"
    ELSE "rename"

\* the checks with an empty file taken for a missing one
AfterFetch_EmptyIsNoFile(was_success, tmp) ==
    IF ~was_success THEN "failed"
    ELSE IF tmp \in {"absent", "empty"} THEN "No file"
    ELSE "rename"

\* the checks without the one on the file's size
AfterFetch_NoSizeCheck(was_success, tmp) ==
    IF ~was_success THEN "failed"
    ELSE IF tmp = "absent" THEN "No file"
    ELSE "rename"

\* the checks between fetch_fn(t) and the rename
AfterFetch(was_success, tmp) ==
    IF ~was_success THEN "failed"
    ELSE IF tmp = "absent" THEN "No file"
    ELSE IF tmp = "empty" THEN "Empty file"
    ELSE "rename"

\* os.rename(t, target_path): target_path now holds what t held
rename(tmp) == IF tmp = "complete" THEN "new" ELSE tmp

\* a cleanup that leaves the temp file where it is
finally_remove_Nothing(t, tmp) == tmp

\* finally: `if t and os.path.exists(t): os.remove(t)`
finally_remove(t, tmp) == IF t /\ tmp # "absent" THEN "absent" ELSE tmp

\* a test that never finds the file to be there
SkipExisting_Never(target, override_existing) == FALSE

\* `if os.path.exists(target_path) and not override_existing: return`
SkipExisting(target, override_existing) == target # "absent" /\ ~override_existing

\* fetch_file(uri, fetch_fn, reporter, target_filename, target_dir, ...)
FfCall ==
    /\ ff.pc = "idle"
    /\ ff.calls < MaxCalls
    /\ \E override_existing \in BOOLEAN :
          ff' = [ffIdle EXCEPT !.pc = "exists", !.calls = ff.calls + 1,
                               !.override_existing = override_existing,
                               !.target = ff.target, !.target_before = ff.target]
    /\ UNCHANGED <<envVars, supVars, workerVars, nowVars, tr>>

\* `if os.path.exists(target_path) and not override_existing: return`,
\* else mkdirs and t = tempfile.mktemp(...), which creates no file
FfExists ==
    /\ ff.pc = "exists"
    /\ IF SkipExisting(ff.target, ff.override_existing)
       THEN ff' = [ff EXCEPT !.pc = "returned"]
       ELSE ff' = [ff EXCEPT !.pc = "fetch", !.t = TRUE]
    /\ UNCHANGED <<envVars, supVars, workerVars, nowVars, tr>>

\* fetch_fn(t) writes to the temp file
FfWrite ==
    /\ ff.pc = "fetch"
    /\ \E c \in Written(ff.tmp) : ff' = [ff EXCEPT !.tmp = c]
    /\ UNCHANGED <<envVars, supVars, workerVars, nowVars, tr>>

\* was_success = fetch_fn(t)
FfFetchReturn ==
    /\ ff.pc = "fetch"
    /\ \E res \in BOOLEAN :
          /\ MayReturn(res, ff.tmp)
          /\ ff' = [ff EXCEPT !.pc = "checks", !.was_success = res,
                              !.fetch_fn = "returned", !.fetched_tmp = ff.tmp]
    /\ UNCHANGED <<envVars, supVars, workerVars, nowVars, tr>>

\* fetch_fn(t) raises (e.g. RemoteFetchException), whatever it has written
FfFetchRaise ==
    /\ ff.pc = "fetch"
    /\ ff' = [ff EXCEPT !.pc = "finally", !.exc = TRUE,
                        !.fetch_fn = "raised", !.fetched_tmp = ff.tmp]
    /\ UNCHANGED <<envVars, supVars, workerVars, nowVars, tr>>

\* `if not was_success: return`, `if not os.path.exists(t): file_error,
\* return`, `if size_bytes == 0: file_error, return`; the reporter may raise
FfChecks ==
    /\ ff.pc = "checks"
    /\ LET a == AfterFetch(ff.was_success, ff.tmp)
       IN IF a = "failed" THEN ff' = [ff EXCEPT !.pc = "finally"]
          ELSE IF a = "rename" THEN ff' = [ff EXCEPT !.pc = "rename"]
          ELSE \E raises \in BOOLEAN :
                  ff' = [ff EXCEPT !.pc = "finally", !.exc = raises,
                                   !.file_error = Append(@, a)]
    /\ UNCHANGED <<envVars, supVars, workerVars, nowVars, tr>>

\* os.rename(t, target_path)
FfRename ==
    /\ ff.pc = "rename"
    /\ ff' = [ff EXCEPT !.pc = "report", !.target = rename(ff.tmp), !.tmp = "absent"]
    /\ UNCHANGED <<envVars, supVars, workerVars, nowVars, tr>>

\* reporter.file_complete(uri, target_path); the reporter may raise
FfReport ==
    /\ ff.pc = "report"
    /\ \E raises \in BOOLEAN :
          ff' = [ff EXCEPT !.pc = "finally", !.exc = raises, !.file_complete = @ + 1]
    /\ UNCHANGED <<envVars, supVars, workerVars, nowVars, tr>>

\* the finally clause, then fetch_file is left: by return or by the exception
FfFinally ==
    /\ ff.pc = "finally"
    /\ ff' = [ff EXCEPT !.pc = IF ff.exc THEN "raised" ELSE "returned",
                        !.tmp = finally_remove(ff.t, ff.tmp)]
    /\ UNCHANGED <<envVars, supVars, workerVars, nowVars, tr>>

\* the caller goes on (to its next file or retry)
FfLeave ==
    /\ ff.pc \in {"returned", "raised"}
    /\ ff' = [ff EXCEPT !.pc = "idle"]
    /\ UNCHANGED <<envVars, supVars, workerVars, nowVars, tr>>

FetchInit ==
    /\ clock = 0
    /\ config_file = [rules |-> {}, directory |-> "d1", notify_addresses |-> TRUE,
                      messaging_settings |-> FALSE]
    /\ edits = 0
    /\ o = load(RunConfig, config_file, 0, <<>>, "TypeError").o
    /\ supPc = "while"
    /\ running_children = {}
    /\ loc = NoLocals
    /\ joinSet = {}
    /\ crash = ""
    /\ reloads = 0
    /\ workers = [w \in WorkerIds |-> NoWorker]
    /\ nSpawned = 0
    /\ logs = <<>>
    /\ nowPc = "idle"
    /\ nowO = RunConfig
    /\ nowLoc = NoNowLocals
    /\ nowChildren = {}
    /\ \E before \in {"absent", "old"} : ff = [ffIdle EXCEPT !.target = before]
    /\ tr = trIdle

FetchNext ==
    \/ FfCall
    \/ FfExists
    \/ FfWrite
    \/ FfFetchReturn
    \/ FfFetchRaise
    \/ FfChecks
    \/ FfRename
    \/ FfReport
    \/ FfFinally
    \/ FfLeave

FetchSpec == FetchInit /\ [][FetchNext]_vars

\* ------------------------------------------------------------------------
\* Reaping on its own: _filter_finished_children applied to any set of
\* children, each running or finished with any exit code
\* ------------------------------------------------------------------------
\* exit codes of a finished process: 0, sys.exit(1), another code, and
\* -15 for a process ended by SIGTERM
ExitCodes == {0, 1, 2, -15}

Children ==
    {[NoWorker EXCEPT !.st = "trigger", !.origin = "loop"]}
    \cup {[NoWorker EXCEPT !.st = "exited", !.origin = "loop", !.exitcode = <<c>>] :
             c \in ExitCodes}

ReapInit ==
    /\ clock = 0
    /\ config_file \in {c \in ValidConfigs : /\ c.rules = {} /\ c.directory = "d1"
                                              /\ ~c.messaging_settings}
    /\ edits = 0
    /\ o = [RunConfig EXCEPT !.notifiers = IF config_file.notify_addresses THEN 1 ELSE 0]
    /\ supPc = "filter"
    /\ running_children \in SUBSET WorkerIds
    /\ loc = NoLocals
    /\ joinSet = {}
    /\ crash = ""
    /\ reloads = 0
    /\ workers \in [WorkerIds -> Children]
    /\ nSpawned = MaxWorkers
    /\ logs = <<>>
    /\ nowPc = "idle"
    /\ nowO = RunConfig
    /\ nowLoc = NoNowLocals
    /\ nowChildren = {}
    /\ ff = ffIdle
    /\ tr = trIdle

\* running_children = _filter_finished_children(running_children, o.notifiers)
FilterCall ==
    /\ supPc = "filter"
    /\ \/ /\ supPc' = "filtered"
          /\ crash' = crash
          /\ running_children' = _filter_finished_children(running_children)
          /\ workers' = Reaped(running_children \ running_children', {})
       \/ \E f \in running_children : \E before \in SUBSET (running_children \ {f}) :
             /\ NotifierActs(workers[f], o.notifiers)
             /\ \A w \in before : workers[w].exitcode # None
             /\ workers' = Reaped(before, {f})
             /\ Raise("SMTPException")
             /\ UNCHANGED running_children
    /\ UNCHANGED <<envVars, o, loc, joinSet, reloads, nSpawned, logs, nowVars, ff, tr>>

ReapNext == FilterCall

ReapSpec == ReapInit /\ [][ReapNext]_vars

\* ------------------------------------------------------------------------
\* The trigger of a file source: the HTTP sources (_HttpBaseSource.trigger,
\* trigger_url, _fetch_files) and the static FTP source (ftp._fetch_files),
\* run by one Worker after the other against an unchanging remote state
\* ------------------------------------------------------------------------
Files == {"f1", "f2"}
HttpKinds == {"HttpSource", "HttpListingSource", "RssSource"}
Kinds == HttpKinds \cup {"FtpSource"}

\* override_existing as each source passes it to fetch_file
OverrideExisting(kind) == kind \in {"HttpSource", "FtpSource"}

\* what the remote end answers to the request for one file: the file, an
\* empty body, a status other than 200 (HTTP), a 4xx reply (FTP
\* error_temp) to every attempt or to the first attempt only, or a failure
\* that makes the request raise (a connection error of requests,
\* ftplib.error_perm)
Responses(kind) ==
    IF kind = "FtpSource" THEN {"ok", "empty", "error_temp", "error_once", "raises"}
    ELSE {"ok", "empty", "non200", "raises"}

\* what the remote end answers to the attempt-th request for a file in a row
Answer(response, attempt) ==
    IF response = "error_once"
    THEN (IF attempt = 1 THEN "error_temp" ELSE "ok")
    ELSE response

\* the answer to the first request of a trigger: the listing page or feed
\* (status 200, 404, another status), the FTP connect (made or refused);
\* the static HTTP source makes no such request
FirstAnswers(kind) ==
    IF kind = "HttpSource" THEN {"200"}
    ELSE IF kind = "FtpSource" THEN {"200", "500"}
    ELSE {"200", "404", "500"}

\* the (url, name) pairs a trigger finds, in their order; a listing can
\* name a file twice
Listings == UNION {[1..n -> Files] : n \in 1..2}

\* do_fetch(t) of http._fetch_files and ftp_fetch(t) of ftp._fetch_files:
\* what they return, what they leave in the temp file, the file_error they
\* report themselves, and the exception they raise
fetch_fn(kind, response) ==
    IF response = "non200"
    THEN [res |-> FALSE, tmp |-> "absent", file_error |-> 1, raised |-> ""]
    ELSE IF response \in {"error_temp", "raises"}
    THEN [res |-> FALSE, tmp |-> "absent", file_error |-> 0,
          raised |-> IF response = "error_temp" THEN "error_temp" ELSE "Exception"]
    ELSE [res |-> TRUE, tmp |-> IF response = "ok" THEN "complete" ELSE "empty",
          file_error |-> 0, raised |-> ""]

\* whether the email sender and the message bus can be reached: both, not
\* the SMTP server on localhost, not the message bus
Deliveries == {"ok", "smtp down", "bus down"}

\* NotifyResultHandler.file_error calls on_file_failure of every notifier,
\* and the emailer's _send_mail raises if it cannot connect;
\* file_complete publishes on the message bus, which raises likewise;
\* neither call is inside a try
ReporterRaises(event, delivery) ==
    \/ event = "file_error" /\ delivery = "smtp down"
    \/ event = "file_complete" /\ delivery = "bus down"

\* fetch_file as one step: what is at target_path afterwards, whether
\* fetch_fn was called, the file_error and file_complete calls made, the
\* exception that left it, and its return value (it has no return with a
\* value: None)
fetch_file(target, kind, response, delivery) ==
    IF SkipExisting(target, OverrideExisting(kind))
    THEN [target |-> target, fetch_fn |-> 0, file_error |-> 0, file_complete |-> 0,
          raised |-> "", ret |-> "None"]
    ELSE LET f == fetch_fn(kind, response)
             a == AfterFetch(f.res, f.tmp)
             errors == f.file_error + (IF a \in {"No file", "Empty file"} THEN 1 ELSE 0)
             completes == IF a = "rename" THEN 1 ELSE 0
         IN IF f.raised # ""
            THEN [target |-> target, fetch_fn |-> 1, file_error |-> 0,
                  file_complete |-> 0, raised |-> f.raised, ret |-> "None"]
            ELSE [target |-> IF a = "rename" THEN rename(f.tmp) ELSE target,
                  fetch_fn |-> 1,
                  file_error |-> errors,
                  file_complete |-> completes,
                  raised |-> IF \/ errors > 0 /\ ReporterRaises("file_error", delivery)
                                \/ completes > 0 /\ ReporterRaises("file_complete", delivery)
                             THEN "Exception" ELSE "",
                  ret |-> "None"]

\* the truth value of what fetch_file returned (`if did_succeed or ...`)
Truthy(ret) == ret = "True"

TriggerInit ==
    /\ clock = 0
    /\ config_file = [rules |-> {}, directory |-> "d1", notify_addresses |-> TRUE,
                      messaging_settings |-> FALSE]
    /\ edits = 0
    /\ o = load(RunConfig, config_file, 0, <<>>, "TypeError").o
    /\ supPc = "while"
    /\ running_children = {}
    /\ loc = NoLocals
    /\ joinSet = {}
    /\ crash = ""
    /\ reloads = 0
    /\ workers = [w \in WorkerIds |-> NoWorker]
    /\ nSpawned = 0
    /\ logs = <<>>
    /\ nowPc = "idle"
    /\ nowO = RunConfig
    /\ nowLoc = NoNowLocals
    /\ nowChildren = {}
    /\ ff = ffIdle
    /\ \E kind \in Kinds : \E first \in FirstAnswers(kind) : \E listing \in Listings :
       \E remote \in [Files -> Responses(kind)] : \E dest \in [Files -> {"absent", "old"}] :
       \E delivery \in Deliveries :
          tr = [kind |-> kind, pc |-> "idle", first |-> first, listing |-> listing,
                remote |-> remote, delivery |-> delivery,
                dest |-> dest, dest_first |-> <<>>,
                triggers |-> 0, urls_filenames |-> <<>>, attempt_count |-> 0,
                attempted |-> {}, outcome |-> "", exitcode |-> None,
                file_error |-> [f \in Files |-> 0],
                file_complete |-> [f \in Files |-> 0],
                refetched |-> FALSE]

\* the trigger has ended and with it the Worker that ran it; what the
\* destination holds after the first one is kept for comparison
Ended(t, outcome) ==
    [t EXCEPT !.pc = "ended", !.outcome = outcome,
              !.exitcode = <<ExitCodeOf(outcome)>>,
              !.dest_first = IF t.triggers = 1 THEN t.dest ELSE @]

\* a listing source that takes 404 for a failure like any other status
FirstRequest_404Raises(kind, first) ==
    IF first # "200" THEN "RemoteFetchException" ELSE "fetch"

\* what trigger makes of the answer to its first request: the listing
\* source returns on 404 (`if res.status_code == 404: return`), every
\* source raises RemoteFetchException on another failure, else the files
\* are fetched
FirstRequest(kind, first) ==
    IF first = "404" /\ kind = "HttpListingSource" THEN "returned"
    ELSE IF first # "200" THEN "RemoteFetchException"
    ELSE "fetch"

\* a Worker calls source.trigger(reporter): the first request and what it
\* makes of the answer (trigger_url of the listing and RSS sources, the
\* connect of ftp._fetch_files)
TrTrigger ==
    /\ tr.kind # ""
    /\ tr.pc \in {"idle", "ended"}
    /\ tr.triggers < MaxTriggers
    /\ LET t == [tr EXCEPT !.triggers = @ + 1, !.attempted = {}, !.attempt_count = 0,
                           !.outcome = "", !.exitcode = None,
                           !.file_error = [f \in Files |-> 0]]
           a == FirstRequest(tr.kind, tr.first)
       IN tr' = IF a = "fetch"
                THEN [t EXCEPT !.pc = "fetching", !.urls_filenames = tr.listing]
                ELSE Ended(t, a)
    /\ UNCHANGED <<envVars, supVars, workerVars, nowVars, ff>>

\* what one call of fetch_file for file f makes of the trigger's records
AfterFetchFile(t, f, r) ==
    [t EXCEPT !.dest[f] = r.target,
              !.attempted = @ \cup {f},
              !.file_error[f] = @ + r.file_error,
              !.file_complete[f] = @ + r.file_complete,
              !.refetched = @ \/ (r.fetch_fn = 1 /\ t.dest[f] # "absent")]

\* the next (url, name) pair, or the end of the trigger after the last
NextFile(t) ==
    IF Tail(t.urls_filenames) = <<>>
    THEN Ended([t EXCEPT !.urls_filenames = <<>>], "returned")
    ELSE [t EXCEPT !.urls_filenames = Tail(@), !.attempt_count = 0]

\* http._fetch_files, one pass of `while True:` for the current pair:
\* did_succeed = fetch_file(...); `if did_succeed or attempt_count >
\* self.retry_count: break`; attempt_count += 1; sleep
TrHttpFetch ==
    /\ tr.kind \in HttpKinds
    /\ tr.pc = "fetching"
    /\ LET f == Head(tr.urls_filenames)
           r == fetch_file(tr.dest[f], tr.kind, tr.remote[f], tr.delivery)
           t == AfterFetchFile(tr, f, r)
           did_succeed == r.ret
       IN tr' = IF r.raised # "" THEN Ended(t, "Exception")
                ELSE IF Truthy(did_succeed) \/ tr.attempt_count > retry_count
                THEN NextFile(t)
                ELSE [t EXCEPT !.attempt_count = @ + 1]
    /\ UNCHANGED <<envVars, supVars, workerVars, nowVars, ff>>

\* a loop that gives up at the first transient error
Exhausted_AtOnce(count) == TRUE

\* `if retry_count >= retries: raise`
Exhausted(count) == count >= retries

\* ftp._fetch_files, one pass of `while True:`: retry_count += 1;
\* fetch_file(...); filename = next(files_itr); retry_count = 0; on
\* EOFError or error_temp: raise if retry_count >= retries, else sleep
\* and reconnect (RemoteFetchException if that fails) and try the same
\* file again
TrFtpFetch ==
    /\ tr.kind = "FtpSource"
    /\ tr.pc = "fetching"
    /\ LET f == Head(tr.urls_filenames)
           r == fetch_file(tr.dest[f], tr.kind,
                           Answer(tr.remote[f], tr.attempt_count + 1), tr.delivery)
           t == AfterFetchFile([tr EXCEPT !.attempt_count = @ + 1], f, r)
       IN IF r.raised = "error_temp"
          THEN IF Exhausted(t.attempt_count) THEN tr' = Ended(t, "Exception")
               ELSE \E reconnected \in BOOLEAN :
                       tr' = IF reconnected THEN t ELSE Ended(t, "RemoteFetchException")
          ELSE tr' = IF r.raised # "" THEN Ended(t, "Exception") ELSE NextFile(t)
    /\ UNCHANGED <<envVars, supVars, workerVars, nowVars, ff>>

TriggerNext ==
    \/ TrTrigger
    \/ TrHttpFetch
    \/ TrFtpFetch

TriggerSpec == TriggerInit /\ [][TriggerNext]_vars

\* ------------------------------------------------------------------------
\* DateRangeSource: an inner source triggered once per date of a range
\* ------------------------------------------------------------------------
\* datetime dates as [year, month, day]
IsLeap(y) == (y % 4 = 0 /\ y % 100 # 0) \/ y % 400 = 0

DaysIn(y, m) ==
    IF m = 2 THEN (IF IsLeap(y) THEN 29 ELSE 28)
    ELSE IF m \in {4, 6, 9, 11} THEN 30 ELSE 31

\* date + timedelta(days=1) and date - timedelta(days=1)
NextDay(d) ==
    IF d.day < DaysIn(d.year, d.month) THEN [d EXCEPT !.day = @ + 1]
    ELSE IF d.month < 12 THEN [d EXCEPT !.month = @ + 1, !.day = 1]
    ELSE [year |-> d.year + 1, month |-> 1, day |-> 1]

PrevDay(d) ==
    IF d.day > 1 THEN [d EXCEPT !.day = @ - 1]
    ELSE IF d.month > 1
    THEN [d EXCEPT !.month = @ - 1, !.day = DaysIn(d.year, d.month - 1)]
    ELSE [year |-> d.year - 1, month |-> 12, day |-> 31]

\* date + timedelta(days=n)
RECURSIVE AddDays(_, _)
AddDays(d, n) ==
    IF n = 0 THEN d
    ELSE IF n > 0 THEN AddDays(NextDay(d), n - 1)
    ELSE AddDays(PrevDay(d), n + 1)

\* the order of dates
DateLt(a, b) ==
    \/ a.year < b.year
    \/ a.year = b.year /\ a.month < b.month
    \/ a.year = b.year /\ a.month = b.month /\ a.day < b.day

\* strftime('%j'): the day of the year
RECURSIVE DayOfYear(_)
DayOfYear(d) ==
    IF d.month = 1 THEN d.day
    ELSE DaysIn(d.year, d.month - 1)
            + DayOfYear([d EXCEPT !.month = @ - 1, !.day = 1]) - 1 + d.day

\* a number as a string of `width` digits, zero-padded
RECURSIVE Digits(_, _)
Digits(n, width) ==
    IF width = 0 THEN <<>> ELSE Append(Digits(n \div 10, width - 1), n % 10)

\* date_params of DateRangeSource.trigger
date_params(day) ==
    [year |-> Digits(day.year, 4), month |-> Digits(day.month, 2),
     day |-> Digits(day.day, 2), julday |-> Digits(DayOfYear(day), 3)]

\* patterns of overridden properties and pattern.format(**date_params):
\* the text of the pattern with its fields replaced
Patterns == {<<"year", "/", "julday">>, <<"year", "-", "month", "-", "day">>, <<"/data">>}

RECURSIVE format(_, _)
format(pattern, params) ==
    IF pattern = <<>> THEN <<>>
    ELSE (IF Head(pattern) \in DOMAIN params THEN params[Head(pattern)]
          ELSE <<Head(pattern)>>) \o format(Tail(pattern), params)

\* a range that leaves out its last day
RECURSIVE _date_range_Exclusive(_, _, _)
_date_range_Exclusive(utcnow, from_days_from_now, to_days_from_now) ==
    IF to_days_from_now - from_days_from_now < 1 THEN <<>>
    ELSE <<AddDays(utcnow, from_days_from_now)>>
            \o _date_range_Exclusive(utcnow, from_days_from_now + 1, to_days_from_now)

\* _date_range(from_days_from_now, to_days_from_now): start_day + n days
\* for n in range(days + 1), in that order
RECURSIVE _date_range(_, _, _)
_date_range(utcnow, from_days_from_now, to_days_from_now) ==
    IF to_days_from_now - from_days_from_now + 1 < 1 THEN <<>>
    ELSE <<AddDays(utcnow, from_days_from_now)>>
            \o _date_range(utcnow, from_days_from_now + 1, to_days_from_now)

\* the days on which the trigger can happen (datetime.utcnow())
Todays == {[year |-> 2023, month |-> 12, day |-> 31],
           [year |-> 2024, month |-> 2, day |-> 28],
           [year |-> 2024, month |-> 3, day |-> 1],
           [year |-> 2023, month |-> 3, day |-> 1]}

\* names of properties of the inner source
PropNames == {"url", "target_dir"}

DateInit ==
    /\ clock = 0
    /\ config_file = [rules |-> {}, directory |-> "d1", notify_addresses |-> TRUE,
                      messaging_settings |-> FALSE]
    /\ edits = 0
    /\ o = load(RunConfig, config_file, 0, <<>>, "TypeError").o
    /\ supPc = "while"
    /\ running_children = {}
    /\ loc = NoLocals
    /\ joinSet = {}
    /\ crash = ""
    /\ reloads = 0
    /\ workers = [w \in WorkerIds |-> NoWorker]
    /\ nSpawned = 0
    /\ logs = <<>>
    /\ nowPc = "idle"
    /\ nowO = RunConfig
    /\ nowLoc = NoNowLocals
    /\ nowChildren = {}
    /\ ff = ffIdle
    /\ \E utcnow \in Todays : \E start_day, end_day \in (0 - MaxDays)..MaxDays :
       \E names \in SUBSET PropNames : \E overridden_properties \in [names -> Patterns] :
          tr = [kind |-> "DateRangeSource", pc |-> "idle", utcnow |-> utcnow,
                start_day |-> start_day, end_day |-> end_day,
                overridden_properties |-> overridden_properties,
                using |-> [n \in PropNames |-> <<"initial">>],
                days |-> <<>>, calls |-> <<>>, outcome |-> ""]

\* DateRangeSource.trigger is called: `for day in _date_range(...)`
DrTrigger ==
    /\ tr.kind = "DateRangeSource"
    /\ tr.pc = "idle"
    /\ tr' = [tr EXCEPT !.pc = "for",
                        !.days = _date_range(tr.utcnow, tr.start_day, tr.end_day)]
    /\ UNCHANGED <<envVars, supVars, workerVars, nowVars, ff>>

\* one pass of the loop: every overridden property of the inner source is
\* set to its pattern formatted for the day, then self.using.trigger(reporter)
\* is called, which returns or raises
DrDay ==
    /\ tr.kind = "DateRangeSource"
    /\ tr.pc = "for"
    /\ tr.days # <<>>
    /\ LET day == Head(tr.days)
           using == [n \in PropNames |->
                        IF n \in DOMAIN tr.overridden_properties
                        THEN format(tr.overridden_properties[n], date_params(day))
                        ELSE tr.using[n]]
       IN \E raises \in BOOLEAN :
             tr' = [tr EXCEPT !.using = using,
                              !.calls = Append(@, [day |-> day, using |-> using]),
                              !.days = Tail(@),
                              !.pc = IF raises THEN "ended" ELSE "for",
                              !.outcome = IF raises THEN "Exception" ELSE ""]
    /\ UNCHANGED <<envVars, supVars, workerVars, nowVars, ff>>

\* the range is used up: trigger returns
DrReturn ==
    /\ tr.kind = "DateRangeSource"
    /\ tr.pc = "for"
    /\ tr.days = <<>>
    /\ tr' = [tr EXCEPT !.pc = "ended", !.outcome = "returned"]
    /\ UNCHANGED <<envVars, supVars, workerVars, nowVars, ff>>

DateNext ==
    \/ DrTrigger
    \/ DrDay
    \/ DrReturn

DateSpec == DateInit /\ [][DateNext]_vars

\* ------------------------------------------------------------------------
\* ShellFileProcessor.process
\* ------------------------------------------------------------------------
\* A path or a template is a sequence of pieces of text; a piece that is a
\* field name stands for the replacement field `{name}`.
FieldNames == {"base", "filename", "file_suffix", "file_stem", "parent_dir"}

\* the files process can be given: <<directory, "/", stem, suffix>>
FilePaths == {<<"/d", "/", "test_a", ".py">>, <<"/d", "/", "data", ".txt">>}

\* re.match(r'^(?P<base>.*test.+)\.py$', source_filename).groupdict(), or
\* None (here <<>>) when the name does not match: base is the path up to
\* its suffix ".py", which must hold "test" followed by something
BasePattern(source_filename) ==
    IF source_filename[4] = ".py" /\ source_filename[3] \in {"test_a"}
    THEN [base |-> SubSeq(source_filename, 1, 3)]
    ELSE <<>>

\* str.format raises KeyError for a replacement field it has no value for
FormatFails(pattern, params) ==
    \E i \in 1..Len(pattern) : pattern[i] \in FieldNames \ DOMAIN params

\* RegexpOutputPathTransform.transform_output_path(output_path,
\* source_filename): the path unchanged when the pattern does not match,
\* else formatted with the groups
transform_output_path(output_path, source_filename) ==
    LET m == BasePattern(source_filename)
    IN IF m = <<>> THEN output_path ELSE format(output_path, m)

\* the keywords _apply_file_pattern takes from the path itself
PathKeywords(file_path) ==
    [filename |-> SubSeq(file_path, 3, 4), file_suffix |-> <<file_path[4]>>,
     file_stem |-> <<file_path[3]>>, parent_dir |-> <<file_path[1]>>]

\* a test that is satisfied by one required file
AllPresent_Any(paths, fs) == \E i \in 1..Len(paths) : paths[i] \in fs

\* all([os.path.isfile(...) for f in self.required_files[1]])
AllPresent(paths, fs) == \A i \in 1..Len(paths) : paths[i] \in fs

\* templates of required files, commands and expected files
RequiredTemplates == {<<"base", ".py">>, <<"base", ".aux">>, <<"/not/here.py">>}
RequiredLists == UNION {[1..n -> RequiredTemplates] : n \in 1..2}
Commands == {<<"ls ", "base", ".py">>, <<"gzip ", "filename">>}
ExpectFiles == {<<"base", ".py">>, <<"parent_dir", "/", "filename">>,
                <<"parent_dir", "/", "file_stem", ".out">>}

\* the paths of the required files for file_path
RequiredPaths(required_files, file_path) ==
    [i \in 1..Len(required_files) |-> transform_output_path(required_files[i], file_path)]

ShellInit ==
    /\ clock = 0
    /\ config_file = [rules |-> {}, directory |-> "d1", notify_addresses |-> TRUE,
                      messaging_settings |-> FALSE]
    /\ edits = 0
    /\ o = load(RunConfig, config_file, 0, <<>>, "TypeError").o
    /\ supPc = "while"
    /\ running_children = {}
    /\ loc = NoLocals
    /\ joinSet = {}
    /\ crash = ""
    /\ reloads = 0
    /\ workers = [w \in WorkerIds |-> NoWorker]
    /\ nSpawned = 0
    /\ logs = <<>>
    /\ nowPc = "idle"
    /\ nowO = RunConfig
    /\ nowLoc = NoNowLocals
    /\ nowChildren = {}
    /\ ff = ffIdle
    /\ \E file_path \in FilePaths : \E required_files \in RequiredLists \cup {<<>>} :
       \E command \in Commands : \E expect_file \in ExpectFiles :
       \E others \in SUBSET {<<"/d", "/", "test_a", ".aux">>} :
          tr = [kind |-> "ShellFileProcessor", pc |-> "idle", file_path |-> file_path,
                required_files |-> required_files, command |-> command,
                expect_file |-> expect_file, fs |-> {file_path} \cup others,
                ran |-> <<>>, returned |-> 0, ret |-> <<>>, raised |-> ""]

\* process(file_path), with what the command does: its return code and
\* the files it leaves
ShProcess ==
    /\ tr.kind = "ShellFileProcessor"
    /\ tr.pc = "idle"
    /\ LET groups == IF tr.required_files # <<>> THEN BasePattern(tr.file_path) ELSE <<>>
           keywords == IF groups = <<>> THEN PathKeywords(tr.file_path)
                       ELSE groups @@ PathKeywords(tr.file_path)
           expect_keywords == PathKeywords(tr.file_path)
           done == [tr EXCEPT !.pc = "done"]
       IN IF /\ tr.required_files # <<>>
             /\ ~AllPresent(RequiredPaths(tr.required_files, tr.file_path), tr.fs)
          THEN tr' = [done EXCEPT !.ret = tr.file_path]
          ELSE IF FormatFails(tr.command, keywords)
          THEN tr' = [done EXCEPT !.raised = "KeyError"]
          ELSE \E returned \in {0, 1} : \E made \in SUBSET {<<"/d", "/", "test_a", ".out">>} :
                  LET ran == [done EXCEPT !.ran = format(tr.command, keywords),
                                          !.returned = returned,
                                          !.fs = @ \cup made]
                  IN tr' = IF returned # 0
                           THEN [ran EXCEPT !.raised = "FileProcessError"]
                           ELSE IF FormatFails(tr.expect_file, expect_keywords)
                           THEN [ran EXCEPT !.raised = "KeyError"]
                           ELSE IF format(tr.expect_file, expect_keywords) \notin ran.fs
                           THEN [ran EXCEPT !.raised = "FileProcessError"]
                           ELSE [ran EXCEPT !.ret = format(tr.expect_file, expect_keywords)]
    /\ UNCHANGED <<envVars, supVars, workerVars, nowVars, ff>>

ShellNext == ShProcess

ShellSpec == ShellInit /\ [][ShellNext]_vars

\* ------------------------------------------------------------------------
\* _sanitize_for_filename on arbitrary names
\* ------------------------------------------------------------------------
\* the characters names are made of: letters of both cases, a digit, and
\* characters that are not alphanumeric
NameChars == {"A", "b", "1", " ", "@", "-"}

\* the names of the docstring
DocNames == {<<"L", "S", "8", " ", "B", "P", "F">>,
             <<"s", "@", "m", "e", " ", "O", "n", "e">>}

Names == DocNames \cup UNION {[1..n -> NameChars] : n \in 0..MaxLen}

SanitizeInit ==
    /\ clock = 0
    /\ config_file = [rules |-> {}, directory |-> "d1", notify_addresses |-> TRUE,
                      messaging_settings |-> FALSE]
    /\ edits = 0
    /\ o = load(RunConfig, config_file, 0, <<>>, "TypeError").o
    /\ supPc = "while"
    /\ running_children = {}
    /\ loc = NoLocals
    /\ joinSet = {}
    /\ crash = ""
    /\ reloads = 0
    /\ workers = [w \in WorkerIds |-> NoWorker]
    /\ nSpawned = 0
    /\ logs = <<>>
    /\ nowPc = "idle"
    /\ nowO = RunConfig
    /\ nowLoc = NoNowLocals
    /\ nowChildren = {}
    /\ ff = ffIdle
    /\ \E text \in Names :
          tr = [kind |-> "sanitize", pc |-> "idle", text |-> text,
                sanitized |-> <<>>, again |-> <<>>]

\* sanitized = _sanitize_for_filename(text)
SanApply ==
    /\ tr.kind = "sanitize"
    /\ tr.pc = "idle"
    /\ tr' = [tr EXCEPT !.pc = "once", !.sanitized = _sanitize_for_filename(tr.text)]
    /\ UNCHANGED <<envVars, supVars, workerVars, nowVars, ff>>

\* the result is sanitized once more
SanAgain ==
    /\ tr.kind = "sanitize"
    /\ tr.pc = "once"
    /\ tr' = [tr EXCEPT !.pc = "twice", !.again = _sanitize_for_filename(tr.sanitized)]
    /\ UNCHANGED <<envVars, supVars, workerVars, nowVars, ff>>

SanitizeNext == SanApply \/ SanAgain

SanitizeSpec == SanitizeInit /\ [][SanitizeNext]_vars

\* ------------------------------------------------------------------------
\* The reporter of a Worker: WrapHandler around NotifyResultHandler
\* ------------------------------------------------------------------------
\* the paths a source reports, and the path the rule's processor returns
\* for each (its expect_file)
Paths == {"p1", "p2"}
ProcessedPath(path) == IF path = "p1" THEN "p1.out" ELSE "p2.out"

\* the lists of paths of a bulk files_complete
PathLists == UNION {[1..n -> Paths] : n \in 0..MaxPaths}

\* what the processor does with a file: returns the expected path, or
\* raises FileProcessError (command returned non-zero, expected path missing)
ProcessResults == {"ok", "FileProcessError"}

\* time.strftime('%Y-%m-%d %H:%M:%S', time.gmtime(scheduled_time)) for the
\* first seconds of the epoch
strftime(scheduled_time) == <<"1970-01-01 00:00:">> \o Digits(scheduled_time, 2)

\* a handler that forwards the path as it was fetched
WrapPath_Unprocessed(process, path) == path

\* `if self.item.process: path = self.item.process.process(path)`
WrapPath(process, path) == IF process THEN ProcessedPath(path) ELSE path

\* a processor whose errors are swallowed
ProcessRaises_Never(process, result) == FALSE

\* whether item.process.process(path) raises
ProcessRaises(process, result) == process /\ result = "FileProcessError"

\* md = msg_metadata or {}; md.update({...})
Tagged(msg_metadata, item, scheduled_time) ==
    [k \in DOMAIN msg_metadata \cup
           {"fetch-cron-pattern", "fetch-trigger-name", "fetch-trigger-time"} |->
        IF k = "fetch-cron-pattern" THEN <<cron_pattern(item)>>
        ELSE IF k = "fetch-trigger-name" THEN item
        ELSE IF k = "fetch-trigger-time" THEN strftime(scheduled_time)
        ELSE msg_metadata[k]]

\* NotifyResultHandler._announce_files_complete(source_uri, paths, md): the
\* announcements on the bus after it (none is made without
\* messaging_settings)
_announce_files_complete(bus, messaging_settings, paths, md) ==
    IF messaging_settings
    THEN Append(bus, [uris |-> paths, properties |-> md @@ [source_uri |-> <<"uri">>]])
    ELSE bus

WrapInit ==
    /\ clock = 0
    /\ config_file = [rules |-> {}, directory |-> "d1", notify_addresses |-> TRUE,
                      messaging_settings |-> FALSE]
    /\ edits = 0
    /\ o = load(RunConfig, config_file, 0, <<>>, "TypeError").o
    /\ supPc = "while"
    /\ running_children = {}
    /\ loc = NoLocals
    /\ joinSet = {}
    /\ crash = ""
    /\ reloads = 0
    /\ workers = [w \in WorkerIds |-> NoWorker]
    /\ nSpawned = 0
    /\ logs = <<>>
    /\ nowPc = "idle"
    /\ nowO = RunConfig
    /\ nowLoc = NoNowLocals
    /\ nowChildren = {}
    /\ ff = ffIdle
    /\ \E item \in RuleNames : \E scheduled_time \in 1..2 : \E process \in BOOLEAN :
       \E messaging_settings \in BOOLEAN : \E paths \in PathLists :
       \E event \in {"file_error", "file_complete", "files_complete"} :
       \E results \in [Paths -> ProcessResults] :
          /\ event \in {"file_error", "file_complete"} => Len(paths) = 1
          /\ tr = [kind |-> "WrapHandler", pc |-> "idle", item |-> item,
                   scheduled_time |-> scheduled_time, process |-> process,
                   messaging_settings |-> messaging_settings, event |-> event,
                   paths |-> paths, results |-> results,
                   t |-> event = "file_complete",
                   tmp |-> IF event = "file_complete" THEN "complete" ELSE "absent",
                   pending |-> <<>>, fetched |-> "", path |-> "", md |-> <<>>,
                   processed |-> <<>>, forwarded |-> <<>>, errors |-> <<>>,
                   bus |-> <<>>, raised |-> "", exitcode |-> None]

\* the source reports to the WrapHandler: file_error is handed on to the
\* reporter as it is; fetch_file renames its temp file and calls
\* file_complete; the mirror calls files_complete, which WrapHandler has
\* from ResultHandler: `for path in paths: self.file_complete(...)`
WrEmit ==
    /\ tr.kind = "WrapHandler"
    /\ tr.pc = "idle"
    /\ tr' = IF tr.event = "file_error"
             THEN [tr EXCEPT !.pc = "finally",
                             !.errors = Append(@, <<"uri", "summary", "body">>)]
             ELSE [tr EXCEPT !.pc = IF tr.paths = <<>> THEN "finally" ELSE "process",
                             !.pending = tr.paths,
                             !.tmp = "absent"]
    /\ UNCHANGED <<envVars, supVars, workerVars, nowVars, ff>>

\* WrapHandler.file_complete(source_uri, path): the processor, if any
WrProcess ==
    /\ tr.kind = "WrapHandler"
    /\ tr.pc = "process"
    /\ LET path == Head(tr.pending)
       IN tr' = IF ProcessRaises(tr.process, tr.results[path])
                THEN [tr EXCEPT !.pc = "finally", !.fetched = path,
                                !.raised = "FileProcessError"]
                ELSE [tr EXCEPT !.pc = "tag", !.fetched = path,
                                !.path = WrapPath(tr.process, path),
                                !.md = <<>>,
                                !.processed = IF tr.process THEN Append(@, path) ELSE @]
    /\ UNCHANGED <<envVars, supVars, workerVars, nowVars, ff>>

\* md = msg_metadata or {}; md.update({...})
WrTag ==
    /\ tr.kind = "WrapHandler"
    /\ tr.pc = "tag"
    /\ tr' = [tr EXCEPT !.pc = "forward",
                        !.md = Tagged(<<>>, tr.item, tr.scheduled_time)]
    /\ UNCHANGED <<envVars, supVars, workerVars, nowVars, ff>>

\* self.reporter.file_complete(source_uri, path, msg_metadata=md), which
\* is NotifyResultHandler.file_complete: _announce_files_complete(
\* source_uri, [path], md)
WrForward ==
    /\ tr.kind = "WrapHandler"
    /\ tr.pc = "forward"
    /\ tr' = [tr EXCEPT !.pc = IF Tail(tr.pending) = <<>> THEN "finally" ELSE "process",
                        !.pending = Tail(@),
                        !.forwarded = Append(@, [fetched |-> tr.fetched, path |-> tr.path,
                                                 md |-> tr.md]),
                        !.bus = _announce_files_complete(@, tr.messaging_settings,
                                                         <<tr.path>>, tr.md)]
    /\ UNCHANGED <<envVars, supVars, workerVars, nowVars, ff>>

\* the finally clause of fetch_file, and the end of the trigger and of the
\* Worker: an exception other than RemoteFetchException is not caught by
\* run, and the process ends with exit code 1
WrFinally ==
    /\ tr.kind = "WrapHandler"
    /\ tr.pc = "finally"
    /\ tr' = [tr EXCEPT !.pc = "done",
                        !.tmp = finally_remove(tr.t, tr.tmp),
                        !.exitcode = <<ExitCodeOf(IF tr.raised = "" THEN "returned"
                                                  ELSE "Exception")>>]
    /\ UNCHANGED <<envVars, supVars, workerVars, nowVars, ff>>

WrapNext ==
    \/ WrEmit
    \/ WrProcess
    \/ WrTag
    \/ WrForward
    \/ WrFinally

WrapSpec == WrapInit /\ [][WrapNext]_vars

\* ------------------------------------------------------------------------
\* Workers of a config whose rules have any names
\* ------------------------------------------------------------------------
\* names a config can give its rules (the keys of its `rules` mapping)
AnyNames == {<<"A">>, <<"a">>, <<"A", " ">>, <<"a", "-">>, <<"B", "1">>}

LockInit ==
    /\ clock = 0
    /\ config_file = [rules |-> {}, directory |-> "d1", notify_addresses |-> TRUE,
                      messaging_settings |-> FALSE]
    /\ edits = 0
    /\ o = load(RunConfig, config_file, 0, <<>>, "TypeError").o
    /\ supPc = "while"
    /\ running_children = {}
    /\ loc = NoLocals
    /\ joinSet = {}
    /\ crash = ""
    /\ reloads = 0
    /\ workers = [w \in WorkerIds |-> NoWorker]
    /\ nSpawned = 0
    /\ logs = <<>>
    /\ nowPc = "idle"
    /\ nowO = RunConfig
    /\ nowLoc = NoNowLocals
    /\ nowChildren = {}
    /\ ff = ffIdle
    /\ \E rules \in SUBSET AnyNames :
          /\ Cardinality(rules) = 2
          /\ tr = [kind |-> "rules", pc |-> "idle", rules |-> rules]

\* _run_item(reporter, item, scheduled_time, log_directory, lock_directory)
\* for a rule of the config that has no Worker yet, at a time within the
\* model's first two minutes
LkSpawn ==
    /\ tr.kind = "rules"
    /\ nSpawned < MaxWorkers
    /\ \E item \in tr.rules : \E scheduled_time \in 0..1 :
          /\ \A w \in WorkerIds : workers[w].rule # item
          /\ workers' = [workers EXCEPT ![nSpawned + 1] =
                 ScheduledProcess("now", item, scheduled_time, o.log_directory,
                                  o.lock_directory, FALSE, FALSE)]
    /\ nSpawned' = nSpawned + 1
    /\ UNCHANGED <<envVars, supVars, logs, nowVars, ff, tr>>

LockNext ==
    \/ LkSpawn
    \/ \E w \in WorkerIds : WorkerRedirect(w)
    \/ \E w \in WorkerIds : WorkerLock(w)
    \/ \E w \in WorkerIds : WorkerFinish(w)

LockSpec == LockInit /\ [][LockNext]_vars

\* ------------------------------------------------------------------------
\* Properties
\* ------------------------------------------------------------------------
LoopWorkers == {w \in WorkerIds : workers[w].origin = "loop"}

\* C1 (NowSpec): single-writer per rule -- for a fixed sanitized name, at
\* any instant at most one Worker is executing source.trigger, whichever of
\* the scheduler loop and run_items spawned the Workers.
C1_SingleWriterPerRule ==
    \A w1, w2 \in WorkerIds :
        (w1 # w2 /\ workers[w1].st = "trigger" /\ workers[w2].st = "trigger")
            => sanitized_name(workers[w1].rule) # sanitized_name(workers[w2].rule)

\* C2 (FetchSpec): in every state of fetch_file the destination path is
\* absent or holds a complete non-empty artifact (that of this fetch or of
\* an earlier one); never an empty or partially written file.
C2_DestinationAtomic == ff.target \in {"absent", "old", "new"}

\* fetch_fn reported success for an empty file: fetch_file has returned,
\* having reported "Empty file", and the destination is as it was
C2_Witness ==
    /\ ff.pc = "returned"
    /\ ff.was_success
    /\ ff.fetched_tmp = "empty"
    /\ ff.file_error = <<"Empty file">>
    /\ ff.target = ff.target_before

\* C3 (FetchSpec): whenever fetch_file is not running (before a call, after
\* it returned, after it raised) no temp file exists.
C3_NoTempRemains == ff.pc \in {"idle", "returned", "raised"} => ff.tmp = "absent"

\* fetch_fn raised after writing part of the file, and fetch_file has been
\* left by that exception
C3_Witness ==
    /\ ff.pc = "raised"
    /\ ff.fetch_fn = "raised"
    /\ ff.fetched_tmp = "partial"

\* C4 (Spec): in every state of the supervisor the live Schedule holds at
\* most one entry per rule name.
C4_OneEntryPerRule ==
    \A i, j \in 1..Len(o.schedule) : i # j => o.schedule[i][2] # o.schedule[j][2]

\* C5 (Spec): within one loop iteration the Schedule object that is peeked,
\* popped and rescheduled into is one and the same.
C5_OneScheduleInIteration ==
    /\ loc.popped_id # 0 => loc.popped_id = loc.peeked_id
    /\ loc.added_id # 0 => loc.added_id = loc.popped_id

\* the config file cannot be loaded: it is unparsable or names a base
\* directory that does not exist
LoadFails == config_file.directory \notin ExistingDirs

\* C6 (Spec): a SIGHUP reload whose load fails leaves schedule,
\* base_directory, messaging_settings, notifiers, log_directory and
\* lock_directory as they were, and the supervisor loop keeps running.
C6_FailedReloadKeepsConfig ==
    [][(reloads' # reloads /\ LoadFails) => (o' = o /\ supPc' = supPc /\ crash' = "")]_vars

\* C7 (Spec): once the exit flag is set, the supervisor ends by returning
\* from run_loop, and it has then seen every Worker it started exit and has
\* classified its exit code.
C7_GracefulShutdown ==
    (o.are_exiting /\ supPc \in {"done", "crashed"})
        => /\ supPc = "done"
           /\ \A w \in LoopWorkers : workers[w].st = "exited" /\ workers[w].classified >= 1

\* C8 (Spec): no Worker is spawned in a loop iteration that started with
\* the exit flag set, and a Worker ends only by its own exit (code 0 or 1),
\* never by a signal.
C8_NoSpawnAfterExit ==
    \A w \in LoopWorkers :
        /\ ~workers[w].exiting_at_start
        /\ workers[w].exitcode \in {None, <<0>>, <<1>>}

\* the signal arrived in the iteration in progress, which still spawned a
\* Worker; run_loop returned after that Worker ran its trigger to the end
C8_Witness ==
    /\ supPc = "done"
    /\ \E w \in LoopWorkers :
          /\ workers[w].exiting_at_spawn
          /\ workers[w].st = "exited"
          /\ ~workers[w].locked_out
          /\ workers[w].classified = 1

\* C9 (Spec): with an empty schedule the supervisor loop raises no error.
C9_EmptyScheduleNoError == ~(o.schedule = <<>> /\ crash = "IndexError")

C11_HolderLogUntouched == \A w \in WorkerIds : ~workers[w].truncated_holder

\* C12 (Spec): every Worker the supervisor started has its exit classified
\* at most once, and exactly once by the time the supervisor has ended; a
\* Worker that exited 0 has caused no notification.
C12_ClassifiedExactlyOnce ==
    \A w \in LoopWorkers :
        /\ workers[w].classified <= 1
        /\ workers[w].exitcode = <<0>> => workers[w].notified = 0
        /\ supPc \in {"done", "crashed"} => workers[w].classified = 1

\* C13 (ReapSpec): for a finished Worker that has been classified, every
\* configured emailer has sent one failure email if its exit code is
\* greater than 0, and no email has been sent if the exit code is 0 or
\* negative; no email is sent for a Worker that has not been classified.
C13_EmailIffPositiveExit ==
    \A w \in WorkerIds :
        workers[w].emailed =
            IF workers[w].classified = 1 /\ workers[w].exitcode[1] > 0
            THEN o.notifiers ELSE 0

\* a signal-killed Worker has been classified with an emailer configured,
\* next to one that failed with a positive code
C13_Witness ==
    /\ supPc = "filtered"
    /\ o.notifiers = 1
    /\ \E w \in WorkerIds : /\ workers[w].classified = 1
                             /\ workers[w].exitcode = <<-15>>
    /\ \E w \in WorkerIds : /\ workers[w].classified = 1
                             /\ workers[w].exitcode[1] > 0
                             /\ workers[w].emailed = 1

\* C14 (ReapSpec): _filter_finished_children returns exactly the given
\* children whose exit code is None; every finished child is dropped,
\* whatever its exit code.
C14_FilterKeepsRunning ==
    [][supPc' = "filtered" =>
          running_children' = {w \in running_children : workers[w].exitcode = None}]_vars

\* a running child was kept and a failed child was dropped
C14_Witness ==
    /\ supPc = "filtered"
    /\ \E w \in running_children : workers[w].exitcode = None
    /\ \E w \in WorkerIds : /\ w \notin running_children
                             /\ workers[w].classified = 1
                             /\ workers[w].exitcode[1] # 0

\* C15 (TriggerSpec): the Worker of a trigger that has ended has exit code
\* 0 if the trigger returned, 1 if it raised RemoteFetchException, and a
\* code greater than 1 if it raised another exception.
C15_ExitCodes ==
    tr.pc = "ended" =>
        /\ tr.outcome = "returned" => tr.exitcode = <<0>>
        /\ tr.outcome = "RemoteFetchException" => tr.exitcode = <<1>>
        /\ tr.outcome = "Exception" => tr.exitcode[1] > 1

\* the Workers that run_items started
NowWorkers == {w \in WorkerIds : workers[w].origin = "now"}

\* the names given to run_items
NamesGiven == {nowLoc.item_names[i] : i \in 1..Len(nowLoc.item_names)}

\* C16 (NowSpec): run_items given names that are all rules of the config
\* does not fail, and when it has returned it has started exactly one
\* Worker for every named rule, none for any other rule, and every Worker
\* it started has exited.
C16_RunItemsSpawnsNamed ==
    (nowLoc.item_names # <<>> /\ NamesGiven \subseteq nowLoc.possible_names) =>
        /\ nowPc # "failed"
        /\ nowPc = "done" =>
               /\ \A r \in RuleNames :
                      Cardinality({w \in NowWorkers : workers[w].rule = r})
                          = IF r \in NamesGiven THEN 1 ELSE 0
               /\ \A w \in NowWorkers : workers[w].st = "exited"

\* C17 (NowSpec): run_items raises its RuntimeError if and only if one of
\* the names given is not a rule of the config, and when it raises it has
\* started no Worker.
C17_RunItemsFailsIffMissing ==
    nowLoc.item_names # <<>> =>
        /\ nowLoc.raised = "RuntimeError" <=> ~(NamesGiven \subseteq nowLoc.possible_names)
        /\ nowLoc.raised = "RuntimeError" => NowWorkers = {}

\* fetch_file has been left after a fetch_fn that reported success and
\* wrote an empty file
EmptyFetched ==
    /\ ff.pc \in {"returned", "raised"}
    /\ ff.fetch_fn = "returned"
    /\ ff.was_success
    /\ ff.fetched_tmp = "empty"

\* C18 as stated (FetchSpec): after a fetch_fn that reported success and
\* wrote an empty file, exactly one file_error "Empty file" has been
\* emitted, file_complete has not been called, and there is no file at
\* target_path.
C18_EmptyLeavesNoFile ==
    EmptyFetched => /\ ff.file_error = <<"Empty file">>
                    /\ ff.file_complete = 0
                    /\ ff.target = "absent"

\* C18 amended (FetchSpec): after a fetch_fn that reported success and
\* wrote an empty file, exactly one file_error "Empty file" has been
\* emitted, file_complete has not been called, and target_path is as it
\* was before the call: no file if there was none, the earlier file if
\* there was one.
C18_EmptyLeavesTargetAsBefore ==
    EmptyFetched => /\ ff.file_error = <<"Empty file">>
                    /\ ff.file_complete = 0
                    /\ ff.target = ff.target_before

\* an overriding fetch of a file that existed got an empty file: the
\* earlier file is still at target_path
C18_Witness ==
    /\ EmptyFetched
    /\ ff.override_existing
    /\ ff.target_before = "old"
    /\ ff.target = "old"

\* C19 (TriggerSpec): for the listing and RSS sources, which do not
\* override: fetch_fn is never invoked for a file that exists at its
\* destination, no file is completed more than once within and across
\* triggers, and after a further trigger against the same remote state the
\* destination holds what it held after the first.
C19_IdempotentWithoutOverride ==
    ~OverrideExisting(tr.kind) =>
        /\ ~tr.refetched
        /\ \A f \in Files : tr.file_complete[f] <= 1
        /\ (tr.pc = "ended" /\ tr.triggers >= 2) => tr.dest = tr.dest_first

\* a listing source has been triggered twice; a file downloaded by the
\* first trigger was not downloaded again
C19_Witness ==
    /\ tr.kind = "HttpListingSource"
    /\ tr.pc = "ended"
    /\ tr.triggers = 2
    /\ tr.outcome = "returned"
    /\ \E f \in Files : /\ tr.dest[f] = "new"
                        /\ tr.dest_first[f] = "new"
                        /\ tr.file_complete[f] = 1

\* the files a trigger was to fetch
Listed == {tr.listing[i] : i \in 1..Len(tr.listing)}

\* every listed file answers with the file, an empty body or a status
\* other than 200
PerFileFailuresOnly ==
    /\ tr.first = "200"
    /\ \A f \in Listed : tr.remote[f] \in {"ok", "empty", "non200"}

\* C20 (TriggerSpec): when the only failures of a trigger are per-file
\* ones (a status other than 200, an empty body), the trigger returns
\* normally (Worker exit code 0), every listed file has been attempted,
\* and every failing file that was fetched has been reported through
\* file_error.
C20_PerFileFailureDoesNotAbort ==
    (tr.pc = "ended" /\ PerFileFailuresOnly) =>
        /\ tr.outcome = "returned"
        /\ tr.exitcode = <<0>>
        /\ tr.attempted = Listed
        /\ \A f \in Listed :
              (/\ tr.remote[f] \in {"empty", "non200"}
               /\ ~SkipExisting(tr.dest[f], OverrideExisting(tr.kind)))
                  => tr.file_error[f] >= 1

\* the first listed file failed with a status other than 200 and was
\* reported, the second was fetched after it
C20_Witness ==
    /\ tr.pc = "ended"
    /\ tr.kind \in HttpKinds
    /\ tr.listing = <<"f1", "f2">>
    /\ tr.remote["f1"] = "non200"
    /\ tr.file_error["f1"] >= 1
    /\ tr.remote["f2"] = "ok"
    /\ tr.file_complete["f2"] = 1
    /\ tr.outcome = "returned"

\* no file has been attempted and the reporter has seen no event
NoReporterEvents ==
    /\ tr.attempted = {}
    /\ \A f \in Files : tr.file_error[f] = 0 /\ tr.file_complete[f] = 0

\* C21 (TriggerSpec): a trigger of the HTTP listing source whose index page
\* answered 404 has returned normally (Worker exit code 0) with no reporter
\* event and no file fetched; one whose index page answered another status
\* than 200 has raised RemoteFetchException, and the Worker's exit code is 1.
C21_Listing404ReturnsCleanly ==
    (tr.kind = "HttpListingSource" /\ tr.pc = "ended") =>
        /\ tr.first = "404" => /\ tr.outcome = "returned"
                               /\ tr.exitcode = <<0>>
                               /\ NoReporterEvents
                               /\ tr.dest = tr.dest_first
        /\ tr.first = "500" => /\ tr.outcome = "RemoteFetchException"
                               /\ tr.exitcode = <<1>>
                               /\ NoReporterEvents

\* the index page answered 404 and the trigger has returned
C21_Witness ==
    /\ tr.kind = "HttpListingSource"
    /\ tr.pc = "ended"
    /\ tr.first = "404"
    /\ tr.outcome = "returned"

\* C22 (DateSpec): when DateRangeSource.trigger has returned it has
\* invoked the inner source end_day - start_day + 1 times (never when
\* end_day < start_day), the i-th time for the date i - 1 days after
\* today + start_day, each date later than the one before, and at each
\* invocation every overridden property held its pattern formatted for
\* that date, the other properties being as they were.
C22_OncePerDateAscending ==
    (tr.pc = "ended" /\ tr.outcome = "returned") =>
        /\ Len(tr.calls) = IF tr.end_day < tr.start_day THEN 0
                           ELSE tr.end_day - tr.start_day + 1
        /\ \A i \in 1..Len(tr.calls) :
              /\ tr.calls[i].day = AddDays(tr.utcnow, tr.start_day + i - 1)
              /\ i > 1 => /\ DateLt(tr.calls[i - 1].day, tr.calls[i].day)
                          /\ tr.calls[i].day = NextDay(tr.calls[i - 1].day)
              /\ \A n \in PropNames :
                    tr.calls[i].using[n] =
                        IF n \in DOMAIN tr.overridden_properties
                        THEN format(tr.overridden_properties[n],
                                    date_params(tr.calls[i].day))
                        ELSE <<"initial">>

\* start_day = -1, end_day = 1 on the last day of a year: three
\* invocations, for yesterday, today and the first day of the next year
C22_Witness ==
    /\ tr.pc = "ended"
    /\ tr.outcome = "returned"
    /\ tr.start_day = -1
    /\ tr.end_day = 1
    /\ tr.utcnow = [year |-> 2023, month |-> 12, day |-> 31]
    /\ Len(tr.calls) = 3
    /\ tr.overridden_properties = [url |-> <<"year", "/", "julday">>]
    /\ tr.calls[1].using["url"] = <<2, 0, 2, 3, "/", 3, 6, 4>>
    /\ tr.calls[3].using["url"] = <<2, 0, 2, 4, "/", 0, 0, 1>>

\* C23 (TriggerSpec): a failure to deliver (the email of a per-file error,
\* the publication of a completion) does not abort the Worker: when no
\* request of the trigger failed otherwise, the trigger returns normally
\* with every listed file attempted and exit code 0, whether or not the
\* email sender and the message bus can be reached.
C23_DeliveryFailureDoesNotAbort ==
    (tr.pc = "ended" /\ PerFileFailuresOnly) =>
        /\ tr.outcome = "returned"
        /\ tr.exitcode = <<0>>
        /\ tr.attempted = Listed

\* required files are configured and one of their paths is not a file
RequiredMissing ==
    /\ tr.required_files # <<>>
    /\ \E i \in 1..Len(tr.required_files) :
          transform_output_path(tr.required_files[i], tr.file_path) \notin tr.fs

\* C24 (ShellSpec): when required files are configured and the path of one
\* of them is missing, process has returned file_path itself, has run no
\* command and has raised nothing.
C24_MissingRequiredReturnsInput ==
    (tr.pc = "done" /\ RequiredMissing) =>
        /\ tr.ret = tr.file_path
        /\ tr.ran = <<>>
        /\ tr.raised = ""

\* of two required files of a matching file one is there and the other is
\* not: process returned the file's path without running the command
C24_Witness ==
    /\ tr.pc = "done"
    /\ tr.file_path = <<"/d", "/", "test_a", ".py">>
    /\ tr.required_files = <<<<"base", ".py">>, <<"base", ".aux">>>>
    /\ <<"/d", "/", "test_a", ".aux">> \notin tr.fs
    /\ tr.ret = tr.file_path
    /\ tr.ran = <<>>

\* the keywords of a file for which the required files were matched: the
\* groups of the pattern and those of the path
AllKeywords == BasePattern(tr.file_path) @@ PathKeywords(tr.file_path)

\* C25 (ShellSpec): when the required files of a matching file are all
\* there, process has run the command formatted with the groups; if the
\* command returned 0 and the expect_file template, formatted with the
\* groups too, names an existing path, process has returned that path,
\* and otherwise it has raised FileProcessError.
C25_RunsCommandReturnsExpected ==
    (/\ tr.pc = "done"
     /\ tr.required_files # <<>>
     /\ BasePattern(tr.file_path) # <<>>
     /\ ~RequiredMissing) =>
        /\ tr.ran = format(tr.command, AllKeywords)
        /\ IF tr.returned = 0 /\ format(tr.expect_file, AllKeywords) \in tr.fs
           THEN tr.ret = format(tr.expect_file, AllKeywords) /\ tr.raised = ""
           ELSE tr.raised = "FileProcessError"

C27_NoSpawnBeforeFireTime ==
    [][(supPc = "spawn" /\ supPc' = "add") => loc.scheduled_time <= clock]_vars

\* C28 (Spec): adding to or popping from a Schedule in which rules share a
\* fire time never fails: the supervisor is never ended by the TypeError
\* of a comparison of two entries.
C28_TiesNeverFail == crash # "TypeError"

\* C29 (Spec): when the supervisor loop has spawned a Worker for a popped
\* entry and rescheduled its rule, every entry of that rule in the Schedule
\* fires after now and after the fire time the Worker was spawned for, so
\* that the rule is not spawned a second time for that fire time.
C29_RescheduledLater ==
    [][(supPc = "add" /\ supPc' = "while") =>
          \A i \in 1..Len(o'.schedule) :
              o'.schedule[i][2] = loc.scheduled_item =>
                  /\ o'.schedule[i][1] > loc.now
                  /\ o'.schedule[i][1] > loc.scheduled_time]_vars

\* the live Schedule is the k-th one loaded and holds an entry of rule r
\* whose fire time has passed, and no Worker has been spawned yet
Due(r, k) ==
    /\ o.schedule_id = k
    /\ nSpawned = 0
    /\ \E i \in 1..Len(o.schedule) : o.schedule[i][2] = r /\ o.schedule[i][1] < clock

\* C30 (FairSpec): with the rules A and B of different frequencies, no exit
\* signal and a supervisor loop that keeps taking steps, a rule whose fire
\* time has passed is eventually popped and a Worker spawned for it, unless
\* a reload has replaced the Schedule by then.
C30_NoRuleStarves ==
    \A r \in RuleNames : \A k \in 1..(MaxReloads + 1) :
        Due(r, k) ~> (\/ \E w \in LoopWorkers : workers[w].rule = r
                      \/ o.schedule_id # k)

\* C31 (FetchSpec): in a call of fetch_file that found a file at
\* target_path and does not override, fetch_fn is not called, no temp file
\* is named or created, no file_error and no file_complete is emitted, the
\* call ends by returning, and the file at target_path stays as it was.
C31_ExistingSkippedSilently ==
    (ff.calls > 0 /\ ff.target_before # "absent" /\ ~ff.override_existing) =>
        /\ ff.fetch_fn = ""
        /\ ~ff.t
        /\ ff.tmp = "absent"
        /\ ff.file_error = <<>>
        /\ ff.file_complete = 0
        /\ ff.pc # "raised"
        /\ ff.target = ff.target_before

\* a call that does not override has returned, the file of an earlier
\* fetch being at target_path
C31_Witness ==
    /\ ff.pc = "returned"
    /\ ~ff.override_existing
    /\ ff.target_before = "old"
    /\ ff.target = "old"
    /\ ff.fetch_fn = ""

\* C32 (FetchSpec): a call of fetch_file emits file_complete at most once;
\* when it has emitted it, fetch_fn had returned true, the temp file has
\* been renamed so that the complete file is at target_path, and the call
\* has emitted no file_error; and a call that is over, whose fetch_fn
\* returned true for a complete file, has emitted it exactly once.
C32_CompleteOnceAfterRename ==
    /\ ff.file_complete <= 1
    /\ ff.file_complete = 1 =>
          /\ ff.fetch_fn = "returned"
          /\ ff.was_success
          /\ ff.target = "new"
          /\ ff.tmp = "absent"
          /\ ff.file_error = <<>>
    /\ (/\ ff.pc \in {"returned", "raised"}
        /\ ff.fetch_fn = "returned"
        /\ ff.was_success
        /\ ff.fetched_tmp = "complete") => ff.file_complete = 1

\* an overriding fetch of a file that existed has returned after emitting
\* file_complete: the new file is at target_path
C32_Witness ==
    /\ ff.pc = "returned"
    /\ ff.target_before = "old"
    /\ ff.target = "new"
    /\ ff.file_complete = 1

\* the FTP trigger has been ended by the transient error of the file it
\* was fetching
EndedByTransientError ==
    /\ tr.kind = "FtpSource"
    /\ tr.pc = "ended"
    /\ tr.outcome = "Exception"
    /\ tr.urls_filenames # <<>>
    /\ Answer(tr.remote[Head(tr.urls_filenames)], tr.attempt_count) = "error_temp"

C34_ProcessThenTagThenForward ==
    tr.kind = "WrapHandler" =>
        /\ \A i \in 1..Len(tr.forwarded) :
              LET e == tr.forwarded[i]
              IN /\ e.path = IF tr.process THEN ProcessedPath(e.fetched) ELSE e.fetched
                 /\ e.fetched = tr.paths[i]
                 /\ tr.process => Len(tr.processed) >= i /\ tr.processed[i] = e.fetched
                 /\ e.md["fetch-cron-pattern"] = <<cron_pattern(tr.item)>>
                 /\ e.md["fetch-trigger-name"] = tr.item
                 /\ e.md["fetch-trigger-time"] =
                        <<"1970-01-01 00:00:", 0, tr.scheduled_time>>
        /\ tr.pc = "tag" => tr.md = <<>>
        /\ tr.pc = "tag" /\ tr.process => tr.processed[Len(tr.processed)] = tr.fetched
        /\ (tr.event = "file_error" /\ tr.pc \in {"finally", "done"}) =>
              /\ tr.errors = <<<<"uri", "summary", "body">>>>
              /\ tr.processed = <<>>
              /\ tr.forwarded = <<>>

\* a rule with a processor: the completed file has been processed and
\* forwarded with the processor's path and the tags
C34_Witness ==
    /\ tr.kind = "WrapHandler"
    /\ tr.pc = "done"
    /\ tr.event = "file_complete"
    /\ tr.process
    /\ tr.paths = <<"p1">>
    /\ Len(tr.forwarded) = 1
    /\ tr.forwarded[1].path = "p1.out"
    /\ tr.forwarded[1].md["fetch-trigger-name"] = tr.item

\* C35 (WrapSpec): a bulk files_complete of n >= 1 paths in a Worker with
\* a message bus has made exactly one announcement, which carries the n
\* paths.
C35_BulkAnnouncedOnce ==
    (/\ tr.kind = "WrapHandler"
     /\ tr.event = "files_complete"
     /\ tr.paths # <<>>
     /\ tr.messaging_settings
     /\ tr.pc = "done"
     /\ tr.raised = "") =>
        /\ Len(tr.bus) = 1
        /\ Len(tr.bus[1].uris) = Len(tr.paths)

\* C36 (WrapSpec): when the processor has raised FileProcessError for a
\* file, the Worker has ended with exit code 1, no completion has been
\* forwarded or announced for that file, and no temp file is left.
C36_ProcessFailureFailsWorker ==
    (tr.kind = "WrapHandler" /\ tr.pc = "done" /\ tr.process
        /\ \E i \in 1..Len(tr.paths) :
              /\ tr.results[tr.paths[i]] = "FileProcessError"
              /\ tr.event # "file_error") =>
        /\ tr.raised = "FileProcessError"
        /\ tr.exitcode = <<1>>
        /\ tr.tmp = "absent"
        /\ \A i \in 1..Len(tr.forwarded) :
              tr.results[tr.forwarded[i].fetched] # "FileProcessError"
        /\ Len(tr.bus) = IF tr.messaging_settings THEN Len(tr.forwarded) ELSE 0

\* the processor failed on the file fetch_file had fetched: the Worker has
\* exited 1 without forwarding anything
C36_Witness ==
    /\ tr.kind = "WrapHandler"
    /\ tr.pc = "done"
    /\ tr.event = "file_complete"
    /\ tr.process
    /\ tr.results[tr.paths[1]] = "FileProcessError"
    /\ tr.exitcode = <<1>>
    /\ tr.forwarded = <<>>

\* C37 (TriggerSpec): in a trigger of an HTTP source a file is re-attempted
\* at most retry_count times, and when the first trigger of the static
\* HTTP source has returned, every URL listed once that answers 200 with
\* the file has been completed exactly once.
C37_StopsAfterSuccess ==
    tr.kind \in HttpKinds =>
        /\ tr.attempt_count <= retry_count
        /\ (tr.kind = "HttpSource" /\ tr.triggers = 1 /\ tr.pc = "ended"
                /\ tr.outcome = "returned") =>
              \A f \in Listed :
                  (tr.remote[f] = "ok" /\ Cardinality({i \in 1..Len(tr.listing) :
                                                          tr.listing[i] = f}) = 1)
                      => tr.file_complete[f] = 1

\* C38 (LockSpec): the Workers of two rules with distinct names have
\* distinct lock files and distinct log files, and neither is locked out.
C38_DistinctRulesDistinctFiles ==
    \A v, w \in WorkerIds :
        (/\ v # w
         /\ workers[v].st # "none"
         /\ workers[w].st # "none"
         /\ workers[v].rule # workers[w].rule) =>
            /\ workers[v].lock_file # workers[w].lock_file
            /\ workers[v].log_file # workers[w].log_file
            /\ ~workers[w].locked_out

\* C39 (Spec): the supervisor's lock_directory is the one of its first
\* load in every state, so that every Worker of the loop has its lock file
\* there; a reload leaves lock_directory as it is, and a reload that
\* succeeds makes log_directory that of the base directory the config file
\* names.
C39_LockDirectoryFixed ==
    /\ [](/\ o.lock_directory = "d1"
          /\ \A w \in LoopWorkers : workers[w].lock_file[1] = "d1")
    /\ [][reloads' # reloads =>
             /\ o'.lock_directory = o.lock_directory
             /\ crash' = "" => o'.log_directory = config_file.directory]_vars

\* after a reload that changed the base directory, a Worker of the loop
\* logs under the new directory and locks under the first
C39_Witness ==
    /\ reloads = 1
    /\ o.base_directory = "d2"
    /\ o.lock_directory = "d1"
    /\ \E w \in LoopWorkers :
          /\ workers[w].log_file[1] = "d2"
          /\ workers[w].lock_file[1] = "d1"

\* C40 (Spec): the supervisor is never ended by the exception of a
\* failure notifier.
C40_NotifierFailureContained == crash # "SMTPException"

====
